---- MODULE Spec2Model ----
(***************************************************************************)
(* Reconciliation and ledger-update pipeline of the Prevista invoice       *)
(* generator (src/app_v2.py, with the older src/app.py where the two       *)
(* differ): remote folder provisioning, ledger cell resolution and the     *)
(* single-cell ledger update.                                              *)
(*                                                                         *)
(* Python strings are modelled as sequences of one-character strings, so   *)
(* that strip, lower, title, the clean_name regular expression, substring  *)
(* tests and the date formats are computed, not assumed.                   *)
(***************************************************************************)
EXTENDS Integers, Sequences, FiniteSets, TLC

----------------------------------------------------------------------------
(* Characters and the str methods the code uses *)

LowerCase ==
  <<"a","b","c","d","e","f","g","h","i","j","k","l","m",
    "n","o","p","q","r","s","t","u","v","w","x","y","z">>

UpperCase ==
  <<"A","B","C","D","E","F","G","H","I","J","K","L","M",
    "N","O","P","Q","R","S","T","U","V","W","X","Y","Z">>

DigitChars ==
  <<"0","1","2","3","4","5","6","7","8","9">>

Whitespace ==
  {" ", "\t"}

IndexOf(c, tbl) ==
  IF \E i \in DOMAIN tbl : tbl[i] = c
  THEN CHOOSE i \in DOMAIN tbl : tbl[i] = c
  ELSE 0

IsAlpha(c) ==
  IndexOf(c, LowerCase) > 0 \/ IndexOf(c, UpperCase) > 0

\* str.lower()
lower(s) ==
  [i \in DOMAIN s |->
     IF IndexOf(s[i], UpperCase) > 0 THEN LowerCase[IndexOf(s[i], UpperCase)] ELSE s[i]]

\* str.title(): a letter that follows a non-letter (or starts the string) is
\* upper-cased, every other letter is lower-cased
title(s) ==
  [i \in DOMAIN s |->
     IF ~IsAlpha(s[i]) THEN s[i]
     ELSE IF i = 1 \/ ~IsAlpha(s[i - 1])
          THEN (IF IndexOf(s[i], LowerCase) > 0 THEN UpperCase[IndexOf(s[i], LowerCase)] ELSE s[i])
          ELSE (IF IndexOf(s[i], UpperCase) > 0 THEN LowerCase[IndexOf(s[i], UpperCase)] ELSE s[i])]

\* str.strip(): leading and trailing whitespace removed
strip(s) ==
  IF \A i \in DOMAIN s : s[i] \in Whitespace THEN << >>
  ELSE LET first == CHOOSE i \in DOMAIN s :
                      s[i] \notin Whitespace /\ \A j \in 1..(i - 1) : s[j] \in Whitespace
           last  == CHOOSE i \in DOMAIN s :
                      s[i] \notin Whitespace /\ \A j \in (i + 1)..Len(s) : s[j] \in Whitespace
       IN SubSeq(s, first, last)

\* re.sub(r"\s*\(.*?\)", "", name), scanning from position i: at i the
\* pattern takes the whitespace run, then "(", then the shortest text up to
\* the first ")"; a match is dropped and the scan resumes after it, otherwise
\* the character at i is kept.
RECURSIVE SubParens(_, _)
SubParens(s, i) ==
  IF i > Len(s) THEN << >>
  ELSE LET open == CHOOSE j \in i..(Len(s) + 1) :
                     /\ \A k \in i..(j - 1) : s[k] \in Whitespace
                     /\ (j = Len(s) + 1 \/ s[j] \notin Whitespace)
           closes == IF open <= Len(s) /\ s[open] = "("
                     THEN {k \in (open + 1)..Len(s) : s[k] = ")"}
                     ELSE {}
       IN IF closes # {}
          THEN SubParens(s, (CHOOSE k \in closes : \A k2 \in closes : k <= k2) + 1)
          ELSE <<s[i]>> \o SubParens(s, i + 1)

clean_name(name) ==
  strip(SubParens(name, 1))

\* the key both sides of the ledger's name comparison are reduced to:
\* clean_name(x.strip().lower())
NormalizeName(raw) ==
  clean_name(lower(strip(raw)))

\* s in t (Python substring test)
IsSubstring(s, t) ==
  \E i \in 0..(Len(t) - Len(s)) : SubSeq(t, i + 1, i + Len(s)) = s

\* str(n) for an integer
RECURSIVE NatToStr(_)
NatToStr(n) ==
  IF n < 10 THEN <<DigitChars[n + 1]>>
  ELSE NatToStr(n \div 10) \o <<DigitChars[(n % 10) + 1]>>

IntToStr(n) ==
  IF n < 0 THEN <<"-">> \o NatToStr(0 - n) ELSE NatToStr(n)

\* int(text): optional surrounding whitespace, then decimal digits;
\* anything else raises ValueError (reported here as "none")
IsIntText(s) ==
  LET t == strip(s) IN Len(t) > 0 /\ \A i \in DOMAIN t : IndexOf(t[i], DigitChars) > 0

RECURSIVE DigitsValue(_)
DigitsValue(t) ==
  IF Len(t) = 0 THEN 0
  ELSE 10 * DigitsValue(SubSeq(t, 1, Len(t) - 1)) + (IndexOf(t[Len(t)], DigitChars) - 1)

----------------------------------------------------------------------------
(* Dates *)

MonthAbbr ==
  << <<"J","a","n">>, <<"F","e","b">>, <<"M","a","r">>, <<"A","p","r">>,
     <<"M","a","y">>, <<"J","u","n">>, <<"J","u","l">>, <<"A","u","g">>,
     <<"S","e","p">>, <<"O","c","t">>, <<"N","o","v">>, <<"D","e","c">> >>

\* strftime("%b-%y") of a date in year y, month m
MonthLabel(y, m) ==
  MonthAbbr[m] \o <<"-">> \o <<DigitChars[((y % 100) \div 10) + 1], DigitChars[(y % 10) + 1]>>

\* datetime(1899, 12, 30) + timedelta(days=n): the proleptic Gregorian date
\* n days after 30-Dec-1899, as [y, m, d]
SerialToDate(n) ==
  LET z   == n - 25569 + 719468
      era == z \div 146097
      doe == z - era * 146097
      yoe == (doe - (doe \div 1460) + (doe \div 36524) - (doe \div 146096)) \div 365
      doy == doe - (365 * yoe + (yoe \div 4) - (yoe \div 100))
      mp  == (5 * doy + 2) \div 153
      d   == doy - ((153 * mp + 2) \div 5) + 1
      m   == IF mp < 10 THEN mp + 3 ELSE mp - 9
      y   == yoe + era * 400 + (IF m <= 2 THEN 1 ELSE 0)
  IN [y |-> y, m |-> m, d |-> d]

----------------------------------------------------------------------------
(* The ledger workbook.  A sheet is a sparse grid: a function from          *)
(* <<row, column>> to a cell; a cell outside its domain is empty.  A cell   *)
(* is empty, text, or a number that is date-formatted or not.               *)

Empty ==
  [t |-> "empty"]

Text(s) ==
  [t |-> "text", s |-> s]

Num(n, isDate) ==
  [t |-> "num", n |-> n, date |-> isDate]

CellAt(grid, r, c) ==
  IF <<r, c>> \in DOMAIN grid THEN grid[<<r, c>>] ELSE Empty

\* what the workbook range API returns in "values" for a cell: text as a
\* string, a number (a date is its serial number), an empty cell as ""
GraphValue(cell) ==
  CASE cell.t = "text" -> [t |-> "str", s |-> cell.s]
    [] cell.t = "num"  -> [t |-> "num", n |-> cell.n]
    [] OTHER           -> [t |-> "str", s |-> << >>]

\* what openpyxl returns as cell.value: text as str, a date-formatted number
\* as a datetime, another number as int, an empty cell as None
OpenpyxlValue(cell) ==
  CASE cell.t = "text" -> [t |-> "str", s |-> cell.s]
    [] cell.t = "num" /\ cell.date -> [t |-> "datetime", d |-> SerialToDate(cell.n)]
    [] cell.t = "num"  -> [t |-> "num", n |-> cell.n]
    [] OTHER           -> [t |-> "none"]

month_headers_row == 7

start_month_column == 8

MonthColumnSpan == 12

NameRangeLastRow == 147

start_row == 38

end_row == 87

text_column == 2

name_column == 3

\* "STARFLEET  / Catalyst", the literal app.py compares column B against
CategoryMarker ==
  <<"S","T","A","R","F","L","E","E","T"," "," ","/"," ","C","a","t","a","l","y","s","t">>

Min(S) ==
  CHOOSE a \in S : \A b \in S : a <= b

Max(S) ==
  CHOOSE a \in S : \A b \in S : b <= a

----------------------------------------------------------------------------
(* Column resolution *)

\* int(header): a number as it is, a string of digits parsed, anything else
\* raises ValueError and the header is skipped
HeaderSerial(v) ==
  IF v.t = "num" THEN [ok |-> TRUE, n |-> v.n]
  ELSE IF IsIntText(v.s) THEN [ok |-> TRUE, n |-> DigitsValue(strip(v.s))]
  ELSE [ok |-> FALSE, n |-> 0]

HeaderMatchesV2(v, month) ==
  /\ HeaderSerial(v).ok
  /\ LET header_date == SerialToDate(HeaderSerial(v).n)
     IN MonthLabel(header_date.y, header_date.m) = month

\* app_v2.py: the first header, counted from column 8, whose serial date
\* formats to month; 0 stands for current_month_col = None
ColumnV2(headers_values, month) ==
  LET hits == {i \in DOMAIN headers_values : HeaderMatchesV2(headers_values[i], month)}
  IN IF hits = {} THEN 0 ELSE start_month_column + Min(hits) - 1

\* app.py: a datetime header is formatted, any other value is compared as is
HeaderMatchesV1(v, month) ==
  CASE v.t = "datetime" -> MonthLabel(v.d.y, v.d.m) = month
    [] v.t = "str"      -> v.s = month
    [] OTHER            -> FALSE

ColumnV1(grid, month) ==
  LET hits == {col \in start_month_column..(start_month_column + MonthColumnSpan - 1) :
                 HeaderMatchesV1(OpenpyxlValue(CellAt(grid, month_headers_row, col)), month)}
  IN IF hits = {} THEN 0 ELSE Min(hits)

----------------------------------------------------------------------------
(* Row resolution *)

\* app_v2.py line 517: both sides reduced by strip, lower, clean_name
NameMatchesRawEmployee(cell_text, employee_name) ==
  NormalizeName(cell_text) = lower(strip(employee_name))

NameMatchesV2(cell_text, employee_name) ==
  NormalizeName(cell_text) = NormalizeName(employee_name)

\* app_v2.py: rows are numbered from 1; the first row of at least two cells
\* whose name cell matches; 0 stands for target_row = None, -1 for the
\* AttributeError of .strip() on a cell that is not a string
RowV2Last(name_values, employee_name) ==
  LET hits == {i \in DOMAIN name_values :
                 /\ Len(name_values[i]) > 1
                 /\ name_values[i][2].t = "str"
                 /\ NameMatchesV2(name_values[i][2].s, employee_name)}
  IN IF hits = {} THEN 0 ELSE Max(hits)

RowV2(name_values, employee_name) ==
  LET stops == {i \in DOMAIN name_values :
                  /\ Len(name_values[i]) > 1
                  /\ \/ name_values[i][2].t # "str"
                     \/ NameMatchesV2(name_values[i][2].s, employee_name)}
  IN IF stops = {} THEN 0
     ELSE IF name_values[Min(stops)][2].t # "str" THEN -1
     ELSE Min(stops)

\* app.py: rows 38..87; column B must equal the marker literal and column C,
\* stripped, the stripped employee name; -1 for the AttributeError of
\* .strip() on a name cell that is not a string
RowV1(grid, employee_name) ==
  LET marked == {row \in start_row..end_row :
                   OpenpyxlValue(CellAt(grid, row, text_column)) = [t |-> "str", s |-> CategoryMarker]}
      stops == {row \in marked :
                  LET v == OpenpyxlValue(CellAt(grid, row, name_column))
                  IN v.t # "str" \/ strip(v.s) = strip(employee_name)}
  IN IF stops = {} THEN 0
     ELSE IF OpenpyxlValue(CellAt(grid, Min(stops), name_column)).t # "str" THEN -1
     ELSE Min(stops)

----------------------------------------------------------------------------
(* Cell addresses *)

\* f"{chr(64 + current_month_col)}{target_row}"
CellAddressShifted(col, row) ==
  <<UpperCase[col + 1]>> \o IntToStr(row)

CellAddress(col, row) ==
  <<UpperCase[col]>> \o IntToStr(row)

\* an address read for its row only, in the first month column
AddressCellInFirstMonth(addr) ==
  <<DigitsValue(Tail(addr)), start_month_column>>

\* the cell an A1-style address of one letter and a row number denotes
AddressCell(addr) ==
  <<DigitsValue(Tail(addr)), IndexOf(Head(addr), UpperCase)>>

\* PATCH {"values": [[total]]}: the value is replaced, the number format of
\* the cell stays
Written(old, total) ==
  Num(total, old.t = "num" /\ old.date)

----------------------------------------------------------------------------
(* State *)

VARIABLES
  book,       \* the ledger workbook: cells per sheet, the worksheet list, the active sheet
  upd,        \* per submission: the update_mastersheet_sharepoint call in progress
  clock,      \* the current date, [year, month]
  items,      \* the remote drive: a set of items [id, parent, name, kind]
  nextId,     \* the id the drive gives the next item it creates
  prov,       \* per submission: the folder provisioning in progress
  creations,  \* history: the folder-creation requests the drive has executed
  inc,        \* per submission: the increment_invoice_number call in progress
  val         \* the validate_sessions call: its arguments and its results

vars == <<book, upd, clock, items, nextId, prov, creations, inc, val>>

ledgerVars == <<book, upd, inc, val>>

driveVars == <<clock, items, nextId, prov, creations>>

\* two submissions, to let their requests interleave
Procs == {1, 2}

MasterSheet == "Master"

EmailSheet == "Email"

\* the first worksheet whose visibility is "Visible"; "" stands for None
FirstVisibleSheet(sheets) ==
  LET vis == {i \in DOMAIN sheets : sheets[i].visibility = "Visible"}
  IN IF vis = {} THEN "" ELSE sheets[Min(vis)].name

\* range(address='H7:S7').values[0]
MonthHeaderValues(grid) ==
  [i \in 1..MonthColumnSpan |->
     GraphValue(CellAt(grid, month_headers_row, IndexOf("H", UpperCase) + i - 1))]

\* range(address='B1:C147').values
EmployeeRangeValues(grid) ==
  [r \in 1..NameRangeLastRow |->
     <<GraphValue(CellAt(grid, r, IndexOf("B", UpperCase))),
       GraphValue(CellAt(grid, r, IndexOf("C", UpperCase)))>>]

Finish(p, message) ==
  upd' = [upd EXCEPT ![p].pc = "done", ![p].ret = message]

\* a PATCH that is sent again once when it was not answered 200
PatchedAfterRetry(p, message) ==
  upd' = [upd EXCEPT ![p].pc = "done", ![p].ret = message,
                     ![p].patches = @ + (IF message = "Error updating cell" THEN 2 ELSE 1)]

\* the return after requests.patch: one PATCH request was sent, patches
\* counting the PATCH requests of the call
Patched(p, message) ==
  upd' = [upd EXCEPT ![p].pc = "done", ![p].ret = message, ![p].patches = @ + 1]

----------------------------------------------------------------------------
(* update_mastersheet_sharepoint, app_v2.py: one action per request, each   *)
(* with the computation that follows it up to the next request              *)

\* Step 1: GET the file; a status other than 200 returns the error string
FetchFileId(p) ==
  /\ upd[p].pc = "file"
  /\ \E ok \in BOOLEAN :
       IF ok THEN upd' = [upd EXCEPT ![p].pc = "sheets"]
       ELSE Finish(p, "Error fetching file ID")
  /\ UNCHANGED <<book, driveVars, inc, val>>

\* Step 2: GET the worksheets and take the first visible one
FetchWorksheets(p) ==
  /\ upd[p].pc = "sheets"
  /\ \E ok \in BOOLEAN :
       IF ~ok THEN Finish(p, "Error fetching worksheets")
       ELSE IF FirstVisibleSheet(book.worksheets) = ""
            THEN Finish(p, "Error: No visible sheets found in the workbook.")
            ELSE upd' = [upd EXCEPT ![p].pc = "headers",
                                    ![p].sheet = FirstVisibleSheet(book.worksheets)]
  /\ UNCHANGED <<book, driveVars, inc, val>>

\* Steps 3 and 4: GET H7:S7 and match the month
FetchMonthHeaders(p) ==
  /\ upd[p].pc = "headers"
  /\ \E ok \in BOOLEAN :
       IF ~ok THEN Finish(p, "Error fetching month headers")
       ELSE LET current_month_col ==
                  ColumnV2(MonthHeaderValues(book.cells[upd[p].sheet]), upd[p].month)
            IN IF current_month_col = 0
               THEN Finish(p, "Error: Month not found in master sheet.")
               ELSE upd' = [upd EXCEPT ![p].pc = "names", ![p].col = current_month_col]
  /\ UNCHANGED <<book, driveVars, inc, val>>

\* Step 5: GET B1:C147 and match the employee
FetchEmployeeRows(p) ==
  /\ upd[p].pc = "names"
  /\ \E ok \in BOOLEAN :
       IF ~ok THEN Finish(p, "Error fetching employee rows")
       ELSE LET target_row ==
                  RowV2(EmployeeRangeValues(book.cells[upd[p].sheet]), upd[p].employee_name)
            IN IF target_row = 0
               THEN Finish(p, "Error: Employee not found in the master sheet.")
               ELSE IF target_row = -1
               THEN Finish(p, "An error occurred")
               ELSE upd' = [upd EXCEPT ![p].pc = "patch", ![p].row = target_row]
  /\ UNCHANGED <<book, driveVars, inc, val>>

\* Step 6: PATCH the one cell at the address built from column and row
PatchTargetCell(p) ==
  /\ upd[p].pc = "patch"
  /\ \E ok \in BOOLEAN :
       IF ~ok THEN Patched(p, "Error updating cell") /\ UNCHANGED book
       ELSE LET target == AddressCell(CellAddress(upd[p].col, upd[p].row))
                grid   == book.cells[upd[p].sheet]
            IN /\ book' = [book EXCEPT !.cells[upd[p].sheet] =
                             (target :> Written(CellAt(grid, target[1], target[2]), upd[p].total))
                             @@ grid]
               /\ Patched(p, "Successfully updated total")
  /\ UNCHANGED <<driveVars, inc, val>>

----------------------------------------------------------------------------
(* update_mastersheet_sharepoint, app.py: the workbook is downloaded,       *)
(* changed in a local copy and uploaded whole                               *)

\* Steps 1 and 2: GET the content, load it, resolve column and row in the
\* active sheet and set the cell in the local copy
DownloadMasterSheet(p) ==
  /\ upd[p].pc = "download"
  /\ \E ok \in BOOLEAN :
       IF ~ok THEN Finish(p, "Error downloading file")
       ELSE LET grid == book.cells[book.active]
                current_month_col == ColumnV1(grid, upd[p].month)
                row == RowV1(grid, upd[p].employee_name)
            IN IF current_month_col = 0
               THEN Finish(p, "Error: Month not found in master sheet.")
               ELSE IF row \in {0, -1}
               THEN upd' = [upd EXCEPT
                       ![p].pc = "done", ![p].sheet = book.active, ![p].col = current_month_col,
                       ![p].ret = IF row = 0
                                  THEN "Error: Employee not found in the master sheet."
                                  ELSE "An error occurred"]
               ELSE upd' = [upd EXCEPT
                       ![p].pc = "upload", ![p].sheet = book.active,
                       ![p].col = current_month_col, ![p].row = row,
                       ![p].local = [book EXCEPT !.cells[book.active] =
                           (<<row, current_month_col>> :>
                              Written(CellAt(grid, row, current_month_col), upd[p].total)) @@ grid]]
  /\ UNCHANGED <<book, driveVars, inc, val>>

\* an upload that sends the changed cell only
UploadChangedCell(p) ==
  /\ upd[p].pc = "upload"
  /\ \E ok \in BOOLEAN :
       IF ~ok THEN Finish(p, "Error uploading file back to SharePoint") /\ UNCHANGED book
       ELSE /\ book' = [book EXCEPT !.cells[upd[p].sheet] =
                          (<<upd[p].row, upd[p].col>> :>
                             upd[p].local.cells[upd[p].sheet][<<upd[p].row, upd[p].col>>]) @@ @]
            /\ Finish(p, "Successfully updated total")
  /\ UNCHANGED <<driveVars, inc, val>>

\* Step 3: PUT the local copy back as the whole content of the file
UploadMasterSheet(p) ==
  /\ upd[p].pc = "upload"
  /\ \E ok \in BOOLEAN :
       IF ~ok THEN Finish(p, "Error uploading file back to SharePoint") /\ UNCHANGED book
       ELSE /\ book' = upd[p].local
            /\ Finish(p, "Successfully updated total")
  /\ UNCHANGED <<driveVars, inc, val>>

----------------------------------------------------------------------------
(* increment_invoice_number, app_v2.py: one action per request             *)

\* worksheet_name = "Email": the roster sheet; its emails are in the first
\* column of the values fetched, its invoice numbers in column D
invoice_number_column == 4

UsedCells(grid) ==
  {rc \in DOMAIN grid : grid[rc] # Empty}

\* .../usedRange: the smallest rectangle that holds every used cell (the
\* single cell A1 for a sheet without any), as [top, left, values]
UsedRange(grid) ==
  IF UsedCells(grid) = {}
  THEN [top |-> 1, left |-> 1, values |-> << <<GraphValue(Empty)>> >>]
  ELSE LET r0 == Min({rc[1] : rc \in UsedCells(grid)})
           r1 == Max({rc[1] : rc \in UsedCells(grid)})
           c0 == Min({rc[2] : rc \in UsedCells(grid)})
           c1 == Max({rc[2] : rc \in UsedCells(grid)})
       IN [top |-> r0, left |-> c0,
           values |-> [i \in 1..(r1 - r0 + 1) |->
                         [j \in 1..(c1 - c0 + 1) |->
                            GraphValue(CellAt(grid, r0 + i - 1, c0 + j - 1))]]]

\* the first index, counted from 1, of a row whose first value equals
\* target_email; 0 stands for row_index = None
EmailRowIndex(used_range_values, target_email) ==
  LET hits == {i \in DOMAIN used_range_values :
                 /\ Len(used_range_values[i]) > 0
                 /\ used_range_values[i][1] = [t |-> "str", s |-> target_email]}
  IN IF hits = {} THEN 0 ELSE Min(hits)

\* bool(current_value)
Truthy(v) ==
  CASE v.t = "str" -> Len(v.s) > 0
    [] v.t = "num" -> v.n # 0
    [] OTHER       -> FALSE

\* int(current_value) + 1 if current_value else 1; ok is FALSE where int()
\* raises ValueError
NewInvoiceNumber(current_value) ==
  IF ~Truthy(current_value) THEN [ok |-> TRUE, n |-> 1]
  ELSE IF current_value.t = "num" THEN [ok |-> TRUE, n |-> current_value.n + 1]
  ELSE IF IsIntText(current_value.s)
  THEN [ok |-> TRUE, n |-> DigitsValue(strip(current_value.s)) + 1]
  ELSE [ok |-> FALSE, n |-> 0]

IncFinish(p, message) ==
  inc' = [inc EXCEPT ![p].pc = "done", ![p].ret = message]

\* the return after requests.patch, patches counting the PATCH requests
IncPatched(p, message) ==
  inc' = [inc EXCEPT ![p].pc = "done", ![p].ret = message, ![p].patches = @ + 1]

\* GET the file; a status other than 200 returns the error string
IncFetchFileId(p) ==
  /\ inc[p].pc = "file"
  /\ \E ok \in BOOLEAN :
       IF ok THEN inc' = [inc EXCEPT ![p].pc = "used"]
       ELSE IncFinish(p, "Error fetching file ID")
  /\ UNCHANGED <<book, upd, val, driveVars>>

\* GET the used range of the "Email" sheet and scan it for the email
IncFetchUsedRange(p) ==
  /\ inc[p].pc = "used"
  /\ \E ok \in BOOLEAN :
       IF ~ok THEN IncFinish(p, "Error fetching used range")
       ELSE LET used_range_values == UsedRange(book.cells[EmailSheet]).values
                row_index == EmailRowIndex(used_range_values, inc[p].target_email)
            IN IF used_range_values = << >>
               THEN IncFinish(p, "Error: No data found in the sheet.")
               ELSE IF row_index = 0
               THEN IncFinish(p, "Error: Email not found in the 'Email' sheet.")
               ELSE inc' = [inc EXCEPT ![p].pc = "current", ![p].row_index = row_index]
  /\ UNCHANGED <<book, upd, val, driveVars>>

\* GET range D{row_index} and compute the new value
IncFetchCurrentValue(p) ==
  /\ inc[p].pc = "current"
  /\ \E ok \in BOOLEAN :
       IF ~ok THEN IncFinish(p, "Error fetching current invoice number")
       ELSE LET cell == CellAt(book.cells[EmailSheet], inc[p].row_index, invoice_number_column)
                new_value == NewInvoiceNumber(GraphValue(cell))
            IN IF ~new_value.ok
               THEN inc' = [inc EXCEPT ![p].pc = "done", ![p].ret = "An error occurred",
                                       ![p].read = cell]
               ELSE inc' = [inc EXCEPT ![p].pc = "patch", ![p].new_value = new_value.n,
                                       ![p].read = cell]
  /\ UNCHANGED <<book, upd, val, driveVars>>

\* PATCH range D{row_index} with the new value
IncPatchInvoiceNumber(p) ==
  /\ inc[p].pc = "patch"
  /\ \E ok \in BOOLEAN :
       IF ~ok THEN IncPatched(p, "Error updating cell") /\ UNCHANGED book
       ELSE LET grid   == book.cells[EmailSheet]
                target == <<inc[p].row_index, invoice_number_column>>
            IN /\ book' = [book EXCEPT !.cells[EmailSheet] =
                             (target :> Written(CellAt(grid, target[1], target[2]),
                                                inc[p].new_value)) @@ grid]
               /\ IncPatched(p, "Successfully incremented invoice number")
  /\ UNCHANGED <<upd, val, driveVars>>

----------------------------------------------------------------------------
(* validate_sessions, app_v2.py *)

\* Times are minutes of the day 10-01-2025. A naive datetime is its wall
\* clock reading; an aware one is [wall, utcoffset].

\* pytz.timezone(...): the offset from UTC, in minutes, on that day
utcoffset(user_timezone_str) ==
  CASE user_timezone_str = "Europe/London" -> 0
    [] user_timezone_str = "Asia/Karachi"  -> 300
    [] OTHER                               -> 0

\* datetime.strptime(f"{session['date']} {session['time']}", ...)
strptime(session) ==
  session.time

\* the session time read as UTC, whatever the timezone
localize_utc(naive, user_timezone_str) ==
  [wall |-> naive, utcoffset |-> 0]

\* user_timezone.localize(naive)
localize(naive, user_timezone_str) ==
  [wall |-> naive, utcoffset |-> utcoffset(user_timezone_str)]

\* datetime.fromisoformat(text.replace("Z", "+00:00")): aware for a text
\* that ends in Z, naive otherwise
fromisoformat(stamp) ==
  [aware |-> stamp.utc, wall |-> stamp.at, utcoffset |-> 0]

\* dt.astimezone(tz); a naive dt is taken to be in the host's local time
astimezone(dt, user_timezone_str, host_utcoffset) ==
  LET from == IF dt.aware THEN dt.utcoffset ELSE host_utcoffset
  IN [wall |-> dt.wall - from + utcoffset(user_timezone_str),
      utcoffset |-> utcoffset(user_timezone_str)]

\* a <= b on aware datetimes
AwareLe(a, b) ==
  a.wall - a.utcoffset <= b.wall - b.utcoffset

NoEvent ==
  [title |-> "", start |-> 0, end |-> 0, timezone |-> ""]

validate_sessions(user_sessions, api_events, user_timezone_str, host_utcoffset) ==
  [i \in DOMAIN user_sessions |->
     LET session == user_sessions[i]
         user_time == localize(strptime(session), user_timezone_str)
         event_start(j) ==
           astimezone(fromisoformat(api_events[j].start), user_timezone_str, host_utcoffset)
         event_end(j) ==
           astimezone(fromisoformat(api_events[j].end), user_timezone_str, host_utcoffset)
         hits == {j \in DOMAIN api_events :
                    AwareLe(event_start(j), user_time) /\ AwareLe(user_time, event_end(j))}
     IN IF hits = {}
        THEN [Session |-> session, Status |-> "No Match Found", Event |-> NoEvent]
        ELSE [Session |-> session, Status |-> "Matched",
              Event |-> [title |-> api_events[Min(hits)].title,
                         start |-> event_start(Min(hits)).wall,
                         end |-> event_end(Min(hits)).wall,
                         timezone |-> user_timezone_str]]]

ValidateSessions ==
  /\ val.pc = "call"
  /\ val' = [val EXCEPT !.pc = "done",
                        !.validation_results =
                           validate_sessions(val.user_sessions, val.api_events, val.tz,
                                             val.host_utcoffset)]
  /\ UNCHANGED <<book, upd, inc, driveVars>>

----------------------------------------------------------------------------
(* fetch_calendar_events, app_v2.py, and its call by the Submit handler     *)

\* datetime.fromisoformat(event_start): the year and month of a time given
\* in minutes from 10-01-2025 00:00 (serial day 45667)
StartDate(stamp) ==
  SerialToDate(45667 + (stamp.at \div 1440))

\* the month alone compared
StartsInCurrentMonthOfAnyYear(event, today) ==
  StartDate(event.start).m = today.month

\* event_start_dt.month == today.month and event_start_dt.year == today.year
StartsInCurrentMonth(event, today) ==
  StartDate(event.start).m = today.month /\ StartDate(event.start).y = today.year

\* the entry appended to processed_events
ProcessedEvent(event) ==
  [id |-> event.id, title |-> event.subject, start |-> event.start, end |-> event.end,
   location |-> event.location]

\* the list returned: for a status 200 the events of response.json()['value']
\* that start in the current month, in order; for another status, []
fetch_calendar_events(status, value, today) ==
  IF status = 200
  THEN LET kept == SelectSeq(value, LAMBDA event : StartsInCurrentMonth(event, today))
       IN [k \in DOMAIN kept |-> ProcessedEvent(kept[k])]
  ELSE << >>

\* a handler that goes on only when every session is matched
AfterValidationIfMatched(validation_results) ==
  IF \A i \in DOMAIN validation_results : validation_results[i].Status = "Matched"
  THEN "base_check" ELSE "stopped"

\* where the handler goes after validate_sessions: to the base folder, the
\* results being kept for the notification only
AfterValidation(validation_results) ==
  "base_check"

\* a tutor's submission: GET the events, then validate_sessions on what
\* fetch_calendar_events returned; the handler goes on to the base folder
FetchCalendarEvents(p) ==
  /\ prov[p].pc = "calendar"
  /\ val.pc = "fetch"
  /\ \E status \in {200, 503} :
       LET api_events == fetch_calendar_events(status, val.feed, clock)
       IN val' = [val EXCEPT !.pc = "done", !.status = status, !.api_events = api_events,
                             !.validation_results =
                                validate_sessions(val.user_sessions, api_events, val.tz,
                                                  val.host_utcoffset)]
  /\ prov' = [prov EXCEPT ![p].pc = AfterValidation(val'.validation_results)]
  /\ UNCHANGED <<book, upd, inc, clock, items, nextId, creations>>

----------------------------------------------------------------------------
(* Names of the folder chain *)

MonthName ==
  << <<"J","a","n","u","a","r","y">>, <<"F","e","b","r","u","a","r","y">>,
     <<"M","a","r","c","h">>, <<"A","p","r","i","l">>, <<"M","a","y">>,
     <<"J","u","n","e">>, <<"J","u","l","y">>, <<"A","u","g","u","s","t">>,
     <<"S","e","p","t","e","m","b","e","r">>, <<"O","c","t","o","b","e","r">>,
     <<"N","o","v","e","m","b","e","r">>, <<"D","e","c","e","m","b","e","r">> >>

S_AEBFinancial == <<"A","E","B"," ","F","i","n","a","n","c","i","a","l">>
S_Invoices == <<"I","n","v","o","i","c","e","s">>
S_Catalyst == <<"C","a","t","a","l","y","s","t">>

\* s[-2:]
LastTwo(s) ==
  IF Len(s) <= 2 THEN s ELSE SubSeq(s, Len(s) - 1, Len(s))

\* the academic year with the cutoff one month late
current_academic_year_from_september(now) ==
  LET first_year == IF now.month >= 9 THEN now.year ELSE now.year - 1
      end_year   == IF now.month >= 9 THEN now.year + 1 ELSE now.year
  IN IntToStr(first_year) \o <<"-">> \o LastTwo(IntToStr(end_year))

current_academic_year(now) ==
  LET first_year == IF now.month >= 8 THEN now.year ELSE now.year - 1
      end_year   == IF now.month >= 8 THEN now.year + 1 ELSE now.year
  IN IntToStr(first_year) \o <<"-">> \o LastTwo(IntToStr(end_year))

\* f"AEB Financial/{academic_year}/Invoices", as its segments
base_folder_path(now) ==
  <<S_AEBFinancial, current_academic_year(now), S_Invoices>>

base_month == 7

start_year == 2024

next_folder_index(now) ==
  (now.year - start_year) * 12 + (now.month - base_month) + 1

\* f"{next_folder_index}. {current_month_name} {current_year_suffix}"
current_month_folder_name(now) ==
  IntToStr(next_folder_index(now)) \o <<".", " ">> \o MonthName[now.month]
    \o <<" ">> \o LastTwo(IntToStr(now.year))

\* app.py: next_folder_index = datetime.now().month-6
next_folder_index_v1(now) ==
  now.month - 6

current_month_folder_name_v1(now) ==
  IntToStr(next_folder_index_v1(now)) \o <<".", " ">> \o MonthName[now.month]
    \o <<" ">> \o LastTwo(IntToStr(now.year))

\* f"{BASE_FOLDER_PATH}/{month_folder}/Catalyst"
FolderPathWithoutCatalyst(base, month_folder) ==
  base \o <<month_folder>>

FolderPath(base, month_folder) ==
  base \o <<month_folder, S_Catalyst>>

----------------------------------------------------------------------------
(* The remote drive: items in a tree under the root (id 0); the names of    *)
(* the children of one folder are distinct, files and folders alike and     *)
(* whatever the letter case                                                 *)

Children(its, pid) ==
  {i \in its : i.parent = pid}

\* "folder" in item and current_month_folder_name in item["name"]
MonthFolderMatches(item, name) ==
  item.kind = "folder" /\ IsSubstring(name, item.name)

\* "folder" in item and formatted_name == item["name"]
EmployeeFolderMatchesOtherCase(item, name) ==
  item.kind = "folder" /\ name = lower(item.name)

EmployeeFolderMatches(item, name) ==
  item.kind = "folder" /\ name = item.name

\* the id of the item a path of names leads to from item `from`, -1 if none
RECURSIVE PathId(_, _, _)
PathId(its, from, path) ==
  IF path = << >> THEN from
  ELSE LET next == {i \in Children(its, from) : lower(i.name) = lower(Head(path))}
       IN IF next = {} THEN -1
          ELSE PathId(its, (CHOOSE i \in next : TRUE).id, Tail(path))

IsFolder(its, id) ==
  id = 0 \/ \E i \in its : i.id = id /\ i.kind = "folder"

\* "@microsoft.graph.conflictBehavior": "rename": the name asked for, or the
\* first of "name 1", "name 2", ... that no child of the folder has
RenamedName(name, k) ==
  IF k = 0 THEN name ELSE name \o <<" ">> \o IntToStr(k)

FreeName(its, pid, name) ==
  LET taken == {lower(i.name) : i \in Children(its, pid)}
  IN RenamedName(name, Min({k \in 0..Cardinality(taken) : lower(RenamedName(name, k)) \notin taken}))

NewFolder(its, pid, name, id) ==
  [id |-> id, parent |-> pid, name |-> FreeName(its, pid, name), kind |-> "folder"]

\* the record kept of an executed creation request
Creation(p, seg, its, pid, name) ==
  [by |-> p, seg |-> seg, parent |-> pid, name |-> name, got |-> FreeName(its, pid, name),
   matched |-> \E i \in Children(its, pid) : i.kind = "folder" /\ i.name = name]

----------------------------------------------------------------------------
(* Folder provisioning of one submission, app_v2.py lines 1184-1217: one    *)
(* action per request to the drive                                         *)

\* an uncaught exception ends the submission
Crash(p) ==
  prov' = [prov EXCEPT ![p].pc = "crashed"]

\* the month step of submission q has returned the folder name
MonthStepDone(q) ==
  prov[q].pc \in {"emp_list", "emp_create", "resolved", "returned_error"}

\* get_or_create_base_folder_path: GET the base folder path.  Any status but
\* 200 and 404 raises; the handler prints the exception and goes on to use
\* BASE_FOLDER_PATH, which was never bound
CheckBaseFolder(p) ==
  /\ prov[p].pc = "base_check"
  /\ \E ok \in BOOLEAN :
       IF ~ok THEN Crash(p)
       ELSE IF PathId(items, 0, base_folder_path(clock)) # -1
       THEN prov' = [prov EXCEPT ![p].pc = "month_list",
                                 ![p].BASE_FOLDER_PATH = base_folder_path(clock)]
       ELSE prov' = [prov EXCEPT ![p].pc = "base_create"]
  /\ UNCHANGED <<clock, items, nextId, creations, ledgerVars>>

\* after a 404: POST a folder named academic_year to the children of the
\* base folder path itself
CreateBaseFolder(p) ==
  /\ prov[p].pc = "base_create"
  /\ LET parent == PathId(items, 0, base_folder_path(clock))
     IN \E ok \in BOOLEAN :
          IF ok /\ parent # -1 /\ IsFolder(items, parent)
          THEN /\ items' = items \cup {NewFolder(items, parent, current_academic_year(clock), nextId)}
               /\ nextId' = nextId + 1
               /\ creations' = creations \cup
                    {Creation(p, "base", items, parent, current_academic_year(clock))}
               /\ prov' = [prov EXCEPT ![p].pc = "month_list",
                                       ![p].BASE_FOLDER_PATH = base_folder_path(clock)]
          ELSE Crash(p) /\ UNCHANGED <<items, nextId, creations>>
  /\ UNCHANGED <<clock, ledgerVars>>

\* get_or_create_month_folder: GET the children of the parent path and look
\* for a folder whose name contains the month folder name
ListMonthFolders(p) ==
  /\ prov[p].pc = "month_list"
  /\ LET parent == PathId(items, 0, prov[p].BASE_FOLDER_PATH)
         current_name == current_month_folder_name(clock)
     IN \E ok \in BOOLEAN :
          IF ~(ok /\ parent # -1 /\ IsFolder(items, parent)) THEN Crash(p)
          ELSE LET found == \E item \in Children(items, parent) :
                              MonthFolderMatches(item, current_name)
                   seen  == [reused |-> found,
                             exact |-> \E item \in Children(items, parent) :
                                         item.kind = "folder" /\ item.name = current_name,
                             after |-> \E q \in Procs \ {p} : MonthStepDone(q)]
               IN IF found
                  THEN prov' = [prov EXCEPT
                          ![p].pc = "emp_list", ![p].month_folder = current_name,
                          ![p].FOLDER_PATH = FolderPath(prov[p].BASE_FOLDER_PATH, current_name),
                          ![p].month_seen = seen]
                  ELSE prov' = [prov EXCEPT ![p].pc = "month_create",
                                            ![p].month_folder = current_name,
                                            ![p].month_seen = seen]
  /\ UNCHANGED <<clock, items, nextId, creations, ledgerVars>>

\* POST the month folder; any status but 201 raises
CreateMonthFolder(p) ==
  /\ prov[p].pc = "month_create"
  /\ LET parent == PathId(items, 0, prov[p].BASE_FOLDER_PATH)
     IN \E ok \in BOOLEAN :
          IF ok /\ parent # -1 /\ IsFolder(items, parent)
          THEN /\ items' = items \cup {NewFolder(items, parent, prov[p].month_folder, nextId)}
               /\ nextId' = nextId + 1
               /\ creations' = creations \cup
                    {Creation(p, "month", items, parent, prov[p].month_folder)}
               /\ prov' = [prov EXCEPT ![p].pc = "catalyst_create",
                                       ![p].main_folder_id = nextId]
          ELSE Crash(p) /\ UNCHANGED <<items, nextId, creations>>
  /\ UNCHANGED <<clock, ledgerVars>>

\* POST "Catalyst" into the new month folder; its status is only printed, and
\* the month folder name is returned
CreateCatalystFolder(p) ==
  /\ prov[p].pc = "catalyst_create"
  /\ \E ok \in BOOLEAN :
       IF ok
       THEN /\ items' = items \cup {NewFolder(items, prov[p].main_folder_id, S_Catalyst, nextId)}
            /\ nextId' = nextId + 1
            /\ creations' = creations \cup
                 {Creation(p, "catalyst", items, prov[p].main_folder_id, S_Catalyst)}
       ELSE UNCHANGED <<items, nextId, creations>>
  /\ prov' = [prov EXCEPT
        ![p].pc = "emp_list",
        ![p].FOLDER_PATH = FolderPath(prov[p].BASE_FOLDER_PATH, prov[p].month_folder)]
  /\ UNCHANGED <<clock, ledgerVars>>

\* the folder part of submission q's process_employee_folder has succeeded
\* for the same parent path and the same formatted name as p's
SameEmployeeResolved(p, q) ==
  /\ prov[q].pc = "resolved"
  /\ prov[q].FOLDER_PATH = prov[p].FOLDER_PATH
  /\ title(prov[q].employee_name) = title(prov[p].employee_name)

\* process_employee_folder: GET the children of the parent path and look for
\* a folder named exactly formatted_name; a status other than 200 is logged
\* and the log returned
ListEmployeeFolders(p) ==
  /\ prov[p].pc = "emp_list"
  /\ LET parent == PathId(items, 0, prov[p].FOLDER_PATH)
         formatted_name == title(prov[p].employee_name)
     IN \E ok \in BOOLEAN :
          IF ~(ok /\ parent # -1 /\ IsFolder(items, parent))
          THEN prov' = [prov EXCEPT ![p].pc = "returned_error",
                                    ![p].ret = "Error fetching parent folder"]
          ELSE LET hits == {item \in Children(items, parent) :
                              EmployeeFolderMatches(item, formatted_name)}
                   seen == [reused |-> hits # {},
                            exact |-> \E item \in Children(items, parent) :
                                        item.kind = "folder" /\ item.name = formatted_name,
                            after |-> \E q \in Procs \ {p} : SameEmployeeResolved(p, q)]
               IN IF hits # {}
                  THEN prov' = [prov EXCEPT
                          ![p].pc = "resolved", ![p].emp_seen = seen,
                          ![p].employee_folder_id = (CHOOSE item \in hits : TRUE).id]
                  ELSE prov' = [prov EXCEPT ![p].pc = "emp_create", ![p].emp_seen = seen]
  /\ UNCHANGED <<clock, items, nextId, creations, ledgerVars>>

\* POST the employee folder; any status but 201 returns the error string
CreateEmployeeFolder(p) ==
  /\ prov[p].pc = "emp_create"
  /\ LET parent == PathId(items, 0, prov[p].FOLDER_PATH)
         formatted_name == title(prov[p].employee_name)
     IN \E ok \in BOOLEAN :
          IF ok /\ parent # -1 /\ IsFolder(items, parent)
          THEN /\ items' = items \cup {NewFolder(items, parent, formatted_name, nextId)}
               /\ nextId' = nextId + 1
               /\ creations' = creations \cup
                    {Creation(p, "employee", items, parent, formatted_name)}
               /\ prov' = [prov EXCEPT ![p].pc = "resolved", ![p].employee_folder_id = nextId]
          ELSE /\ prov' = [prov EXCEPT ![p].pc = "returned_error",
                                       ![p].ret = "Error creating folder"]
               /\ UNCHANGED <<items, nextId, creations>>
  /\ UNCHANGED <<clock, ledgerVars>>

----------------------------------------------------------------------------
(* Uploads of process_employee_folder, app_v2.py lines 311-337: one action  *)
(* per PUT request                                                          *)

\* statuses of a PUT other than 201 and 200
UploadErrorStatuses == {403, 503}

HasFile(its, folder, name) ==
  \E i \in Children(its, folder) : i.kind = "file" /\ lower(i.name) = lower(name)

\* PUT .../items/{folder}:/{name}:/content when it is served: 201 and a new
\* file, or 200 and the content of the file of that name replaced
PutStatus(its, folder, name) ==
  IF HasFile(its, folder, name) THEN 200 ELSE 201

PutContent(its, folder, name, id) ==
  IF HasFile(its, folder, name) THEN its
  ELSE its \cup {[id |-> id, parent |-> folder, name |-> name, kind |-> "file"]}

LogEntry(msg, file, status) ==
  [msg |-> msg, file |-> file, status |-> status]

\* every status but 201 logged as an error
UploadLogReplacedAsError(what, name, status) ==
  IF status = 201 THEN << >>
  ELSE IF what = "invoice" THEN <<LogEntry("Error uploading invoice", << >>, status)>>
  ELSE <<LogEntry("Error uploading file", name, status)>>

\* what a PUT's status appends to logs: nothing for 201, 'Already exist'
\* for 200, the error and its status code otherwise
UploadLog(what, name, status) ==
  IF status = 201 THEN << >>
  ELSE IF status = 200
  THEN IF what = "invoice"
       THEN <<LogEntry("Invoice Already exist with the same name.", name, 0)>>
       ELSE <<LogEntry("Receipt Already exist with the same name.", name, 0)>>
  ELSE IF what = "invoice" THEN <<LogEntry("Error uploading invoice", << >>, status)>>
  ELSE <<LogEntry("Error uploading file", name, status)>>

\* logs.append("Files uploaded successfully ...") and return logs, after the
\* last file
ReturnLogs(p, logs) ==
  [pc |-> "returned",
   logs |-> Append(logs, LogEntry("Files uploaded successfully to folder",
                                  title(prov[p].employee_name), 0))]

\* one PUT of `name` by submission p, then the return if it was the last
PutFile(p, what, name, last) ==
  \E status \in {PutStatus(items, prov[p].employee_folder_id, name)} \cup UploadErrorStatuses :
    LET logs == prov[p].logs \o UploadLog(what, name, status)
        requests == Append(prov[p].requests, [file |-> name, status |-> status])
    IN /\ IF status = 201
          THEN /\ items' = PutContent(items, prov[p].employee_folder_id, name, nextId)
               /\ nextId' = nextId + 1
          ELSE UNCHANGED <<items, nextId>>
       /\ prov' = IF last
                  THEN [prov EXCEPT ![p].pc = ReturnLogs(p, logs).pc,
                                    ![p].logs = ReturnLogs(p, logs).logs,
                                    ![p].requests = requests]
                  ELSE [prov EXCEPT ![p].pc = "optional", ![p].logs = logs,
                                    ![p].requests = requests]

\* the mandatory invoice, which generate_invoice has saved
UploadInvoice(p) ==
  /\ prov[p].pc = "resolved"
  /\ PutFile(p, "invoice", prov[p].invoice_file_path, prov[p].optional_files = << >>)
  /\ UNCHANGED <<clock, creations, ledgerVars>>

\* the next optional file: open(optional_file.name, "rb") raises where the
\* working directory has no file of that name
UploadOptionalFile(p) ==
  /\ prov[p].pc = "optional"
  /\ LET k == Len(prov[p].requests)
         optional_file == prov[p].optional_files[k]
     IN IF ~optional_file.on_disk
        THEN Crash(p) /\ UNCHANGED <<items, nextId>>
        ELSE PutFile(p, "file", optional_file.name, k = Len(prov[p].optional_files))
  /\ UNCHANGED <<clock, creations, ledgerVars>>

----------------------------------------------------------------------------
(* The date-derived names, app_v2.py lines 196-210 and 628-644, app.py      *)
(* lines 63-67 and 302-318                                                  *)

\* the names a submission of either version computes from datetime.now()
NameFolders(p) ==
  /\ prov[p].pc = "name"
  /\ prov' = [prov EXCEPT
        ![p].pc = "named",
        ![p].at = clock,
        ![p].academic_year = current_academic_year(clock),
        ![p].next_folder_index = IF prov[p].ver = "v1" THEN next_folder_index_v1(clock)
                                 ELSE next_folder_index(clock),
        ![p].month_folder = IF prov[p].ver = "v1" THEN current_month_folder_name_v1(clock)
                            ELSE current_month_folder_name(clock)]
  /\ UNCHANGED <<clock, items, nextId, creations, ledgerVars>>

\* the calendar passes to the next month
NextMonth(now) ==
  IF now.month = 12 THEN [year |-> now.year + 1, month |-> 1]
  ELSE [year |-> now.year, month |-> now.month + 1]

----------------------------------------------------------------------------
(* Inputs *)

MaxHeaderCols == 2

MaxNameRows == 2

MaxStrLen == 3

S_Jan25 == <<"J","a","n","-","2","5">>
S_Feb25 == <<"F","e","b","-","2","5">>
S_Mar25 == <<"M","a","r","-","2","5">>
S_Dec24 == <<"D","e","c","-","2","4">>
S_Other == <<"O","t","h","e","r">>
S_Alice == <<"A","l","i","c","e">>
S_BobTemp == <<"B","o","b"," ","(","t","e","m","p",")">>
S_bob == <<"b","o","b">>
S_carol == <<"c","a","r","o","l">>
S_JaneMaternity ==
  <<"J","a","n","e"," ","D","o","e"," ","(","M","a","t","e","r","n","i","t","y",")">>
S_jane_doe_ == <<"j","a","n","e"," ","d","o","e"," ">>

\* the serial numbers of 1-Jan-2025, 14-Feb-2025 and 1-Mar-2025
MonthSerials == <<45658, 45702, 45717>>

MonthTokens == <<S_Jan25, S_Feb25, S_Mar25>>

\* a month header as the sheet may hold it: a token typed as text, a date
\* (a date-formatted number), a bare serial number, or nothing
HeaderCells ==
  {Empty, Num(MonthSerials[2], FALSE)}
    \cup UNION {{Text(MonthTokens[k]), Num(MonthSerials[k], TRUE)} : k \in 1..3}

\* rows of columns B and C: with and without the category marker, the name
\* annotated, with a trailing space, a number, or empty
NameRowCells ==
  {<<Text(S_Other), Text(S_Alice)>>, <<Text(S_Other), Text(S_BobTemp)>>,
   <<Text(CategoryMarker), Text(S_BobTemp)>>, <<Text(CategoryMarker), Text(S_jane_doe_)>>,
   <<Text(CategoryMarker), Num(7, FALSE)>>, <<Text(CategoryMarker), Empty>>}

HeaderGrid(cells) ==
  [rc \in {<<month_headers_row, start_month_column + i - 1>> : i \in DOMAIN cells} |->
     cells[rc[2] - start_month_column + 1]]

NameRows(rows) ==
  [rc \in {<<start_row + i - 1, c>> : i \in DOMAIN rows, c \in {text_column, name_column}} |->
     rows[rc[1] - start_row + 1][rc[2] - text_column + 1]]

RECURSIVE StringsUpTo(_, _)
StringsUpTo(alphabet, n) ==
  IF n = 0 THEN {<< >>}
  ELSE LET shorter == StringsUpTo(alphabet, n - 1)
       IN shorter \cup {Append(t, c) : t \in shorter, c \in alphabet}

RECURSIVE TuplesOf(_, _)
TuplesOf(S, n) ==
  IF n = 0 THEN {<< >>}
  ELSE {Append(t, e) : t \in TuplesOf(S, n - 1), e \in S}

SeqsUpTo(S, n) ==
  UNION {TuplesOf(S, k) : k \in 0..n}

NameAlphabet == {"a", "B", " ", "(", ")"}

TwoSheets ==
  <<[name |-> MasterSheet, visibility |-> "Visible"],
    [name |-> EmailSheet, visibility |-> "Visible"]>>

NoGrid == [rc \in {} |-> Empty]

Workbook(master, sheets) ==
  [cells |-> [n \in {MasterSheet, EmailSheet} |-> IF n = MasterSheet THEN master ELSE NoGrid],
   worksheets |-> sheets,
   active |-> MasterSheet]

Call(ver, employee_name, total, month) ==
  [pc |-> IF ver = "v2" THEN "file" ELSE "download", ver |-> ver,
   employee_name |-> employee_name, total |-> total, month |-> month,
   sheet |-> "", col |-> 0, row |-> 0, ret |-> "", local |-> << >>, patches |-> 0]

\* a submission that makes no call
Idle ==
  [pc |-> "idle", ver |-> "", employee_name |-> << >>, total |-> 0, month |-> << >>,
   sheet |-> "", col |-> 0, row |-> 0, ret |-> "", local |-> << >>, patches |-> 0]

OneCall(call) ==
  [p \in Procs |-> IF p = 1 THEN call ELSE Idle]

ExampleHeaders == <<Text(S_Jan25), Text(S_Feb25), Text(S_Mar25)>>

SerialHeaders == <<Num(MonthSerials[1], TRUE), Num(MonthSerials[2], TRUE), Num(MonthSerials[3], FALSE)>>

ExampleRows == <<<<Text(S_Other), Text(S_Alice)>>, <<Text(CategoryMarker), Text(S_BobTemp)>>>>

NotSeen ==
  [reused |-> FALSE, exact |-> FALSE, after |-> FALSE]

Submission(employee_name) ==
  [pc |-> "base_check", employee_name |-> employee_name, BASE_FOLDER_PATH |-> << >>,
   month_folder |-> << >>, main_folder_id |-> -1, FOLDER_PATH |-> << >>,
   employee_folder_id |-> -1, ret |-> "", month_seen |-> NotSeen, emp_seen |-> NotSeen,
   invoice_file_path |-> << >>, optional_files |-> << >>, logs |-> << >>, requests |-> << >>,
   email |-> << >>, total |-> 0, ver |-> "v2", at |-> [year |-> 0, month |-> 0],
   next_folder_index |-> 0, academic_year |-> << >>]

\* a submission that provisions nothing
NoSubmission ==
  [Submission(<< >>) EXCEPT !.pc = "idle"]

\* an increment_invoice_number call that is not made
NoIncrement ==
  [pc |-> "idle", target_email |-> << >>, row_index |-> 0, new_value |-> 0, ret |-> "",
   read |-> Empty, initial |-> Empty, patches |-> 0]

\* no validate_sessions call
NoValidation ==
  [pc |-> "idle", user_sessions |-> << >>, api_events |-> << >>, tz |-> "",
   host_utcoffset |-> 0, validation_results |-> << >>, feed |-> << >>, status |-> 0]

OthersIdle ==
  /\ inc = [p \in Procs |-> NoIncrement]
  /\ val = NoValidation

\* the drive side of a specification of the ledger calls alone
DriveIdle ==
  /\ clock = [year |-> 2025, month |-> 2]
  /\ items = {}
  /\ nextId = 1
  /\ prov = [p \in Procs |-> NoSubmission]
  /\ creations = {}
  /\ OthersIdle

\* one call on a sheet drawn from: every header row of MaxHeaderCols cells
\* (and the three-token example row) over the example rows, for either
\* version; every MaxNameRows name rows under serial headers for app_v2.py
\* and every single name row for app.py; every name cell of at most
\* MaxStrLen characters for app_v2.py
InitResolve ==
  /\ \/ \E ver \in {"v1", "v2"},
            hs \in TuplesOf(HeaderCells, MaxHeaderCols) \cup {ExampleHeaders},
            month \in {S_Feb25, S_Dec24} :
          /\ book = Workbook(HeaderGrid(hs) @@ NameRows(ExampleRows), TwoSheets)
          /\ upd = OneCall(Call(ver, S_bob, 250, month))
     \/ \E rows \in TuplesOf(NameRowCells, MaxNameRows),
            name \in {S_bob, S_carol, S_JaneMaternity} :
          /\ book = Workbook(HeaderGrid(SerialHeaders) @@ NameRows(rows), TwoSheets)
          /\ upd = OneCall(Call("v2", name, 250, S_Feb25))
     \/ \E row \in NameRowCells, name \in {S_bob, S_BobTemp} :
          /\ book = Workbook(HeaderGrid(SerialHeaders) @@ NameRows(<<row>>), TwoSheets)
          /\ upd = OneCall(Call("v1", name, 250, S_Feb25))
     \/ \E cell \in StringsUpTo(NameAlphabet, MaxStrLen),
            name \in {<<"B">>, <<" ","a","(",")">>, <<"(","a",")">>} :
          /\ book = Workbook(HeaderGrid(SerialHeaders)
                             @@ NameRows(<<<<Text(CategoryMarker), Text(cell)>>>>), TwoSheets)
          /\ upd = OneCall(Call("v2", name, 250, S_Feb25))
  /\ DriveIdle

NextResolve ==
  \E p \in Procs :
    \/ FetchFileId(p)
    \/ FetchWorksheets(p)
    \/ FetchMonthHeaders(p)
    \/ FetchEmployeeRows(p)
    \/ PatchTargetCell(p)
    \/ DownloadMasterSheet(p)
    \/ UploadMasterSheet(p)

SpecResolve == InitResolve /\ [][NextResolve]_vars

\* two concurrent app_v2.py calls on a ledger whose target cells are empty
\* or already hold a total
InitLedger ==
  \E old \in {Empty, Num(75, FALSE)},
     sheets \in {TwoSheets,
                 <<[name |-> MasterSheet, visibility |-> "Hidden"],
                   [name |-> EmailSheet, visibility |-> "Visible"]>>,
                 <<[name |-> MasterSheet, visibility |-> "Hidden"],
                   [name |-> EmailSheet, visibility |-> "VeryHidden"]>>},
     n1 \in {S_bob, S_Alice}, n2 \in {S_bob, S_Alice, S_carol},
     m1 \in {S_Jan25, S_Feb25}, m2 \in {S_Feb25, S_Dec24} :
    /\ book = Workbook(HeaderGrid(SerialHeaders)
                       @@ NameRows(<<<<Text(CategoryMarker), Text(S_BobTemp)>>,
                                     <<Text(S_Other), Text(S_Alice)>>>>)
                       @@ [rc \in {<<start_row, start_month_column + 1>>,
                                   <<start_row + 1, start_month_column>>} |-> old],
                       sheets)
    /\ upd = [p \in Procs |-> IF p = 1 THEN Call("v2", n1, 100, m1)
                                         ELSE Call("v2", n2, 250, m2)]
    /\ DriveIdle

NextLedger ==
  \E p \in Procs :
    \/ FetchFileId(p)
    \/ FetchWorksheets(p)
    \/ FetchMonthHeaders(p)
    \/ FetchEmployeeRows(p)
    \/ PatchTargetCell(p)

SpecLedger == InitLedger /\ [][NextLedger]_vars

\* two app.py calls at the same time, each with its own copy of the content
\* it downloaded, for the same or for different employees of the category
InitLedgerV1 ==
  \E old \in {Empty, Num(75, FALSE)},
     headers \in {ExampleHeaders, SerialHeaders},
     n1 \in {S_BobTemp, S_Alice}, n2 \in {S_BobTemp, S_Alice, S_carol},
     m1 \in {S_Jan25, S_Feb25}, m2 \in {S_Feb25, S_Dec24} :
    /\ book = Workbook(HeaderGrid(headers)
                       @@ NameRows(<<<<Text(CategoryMarker), Text(S_BobTemp)>>,
                                     <<Text(CategoryMarker), Text(S_Alice)>>>>)
                       @@ [rc \in {<<start_row, start_month_column + 1>>,
                                   <<start_row + 1, start_month_column>>} |-> old],
                       TwoSheets)
    /\ upd = [p \in Procs |-> IF p = 1 THEN Call("v1", n1, 100, m1)
                                         ELSE Call("v1", n2, 250, m2)]
    /\ DriveIdle

NextLedgerV1 ==
  \E p \in Procs :
    \/ DownloadMasterSheet(p)
    \/ UploadMasterSheet(p)

SpecLedgerV1 == InitLedgerV1 /\ [][NextLedgerV1]_vars

S_a_x == <<"a","@","x">>
S_A_x == <<"A","@","x">>
S_b_x == <<"b","@","x">>
S_Email == <<"E","m","a","i","l">>
S_InvoiceNumber == <<"I","n","v","o","i","c","e"," ","N","u","m","b","e","r">>

MaxRosterRows == 2

email_column == 1

\* a roster sheet: `top` blank rows, a header row, then one row per employee
\* with the email in column A and the invoice number in column D
Roster(top, rows) ==
  [rc \in {<<top + 1, email_column>>, <<top + 1, invoice_number_column>>} |->
     IF rc[2] = email_column THEN Text(S_Email) ELSE Text(S_InvoiceNumber)]
  @@ [rc \in {<<top + 1 + i, c>> : i \in DOMAIN rows, c \in {email_column, invoice_number_column}} |->
        rows[rc[1] - top - 1][IF rc[2] = email_column THEN 1 ELSE 2]]

WorkbookWithRoster(roster) ==
  [Workbook(NoGrid, TwoSheets) EXCEPT !.cells[EmailSheet] = roster]

\* the sheet rows whose email cell holds the email
RosterRows(grid, email) ==
  {r \in {rc[1] : rc \in DOMAIN grid} : CellAt(grid, r, email_column) = Text(email)}

\* the invoice-number cell of the first row that holds the email
CounterCell(grid, email) ==
  IF RosterRows(grid, email) = {} THEN Empty
  ELSE CellAt(grid, Min(RosterRows(grid, email)), invoice_number_column)

Increment(target_email, grid) ==
  [NoIncrement EXCEPT !.pc = "file", !.target_email = target_email,
                      !.initial = CounterCell(grid, target_email)]

\* one call, or two concurrent calls for the same or for different emails, on
\* a roster of MaxRosterRows employees below 0 or 1 blank rows
InitRoster ==
  /\ \E top \in {0, 1},
        rows \in TuplesOf({<<Text(e), n>> : e \in {S_a_x, S_A_x, S_b_x},
                                             n \in {Empty, Num(41, FALSE),
                                                    Text(<<"4","1">>), Text(<<"n","o">>)}},
                          MaxRosterRows),
        e1 \in {S_a_x, S_b_x}, e2 \in {S_a_x, << >>} :
       /\ book = WorkbookWithRoster(Roster(top, rows))
       /\ inc = [p \in Procs |-> IF p = 1 THEN Increment(e1, Roster(top, rows))
                                 ELSE IF e2 = << >> THEN NoIncrement
                                 ELSE Increment(e2, Roster(top, rows))]
  /\ upd = [p \in Procs |-> Idle]
  /\ val = NoValidation
  /\ clock = [year |-> 2025, month |-> 2]
  /\ items = {}
  /\ nextId = 1
  /\ prov = [p \in Procs |-> NoSubmission]
  /\ creations = {}

NextRoster ==
  \E p \in Procs :
    \/ IncFetchFileId(p)
    \/ IncFetchUsedRange(p)
    \/ IncFetchCurrentValue(p)
    \/ IncPatchInvoiceNumber(p)

SpecRoster == InitRoster /\ [][NextRoster]_vars

MaxSessions == 2
MaxEvents == 2

\* 08:30, 09:00, 09:30, 09:31, 13:30, 14:30, 14:31 on 10-01-2025
SessionTimes == {510, 540, 570, 571, 810, 870, 871}

Stamp(at, utc) ==
  [at |-> at, utc |-> utc]

\* 08:30Z-09:30Z, 09:00Z-10:00Z, and 08:30-09:30 without a UTC designator
EventPool ==
  { [title |-> "A", start |-> Stamp(510, TRUE), end |-> Stamp(570, TRUE)],
    [title |-> "B", start |-> Stamp(540, TRUE), end |-> Stamp(600, TRUE)],
    [title |-> "C", start |-> Stamp(510, FALSE), end |-> Stamp(570, FALSE)] }

InitValidate ==
  /\ \E user_sessions \in SeqsUpTo({[date |-> "10-01-2025", time |-> t] : t \in SessionTimes},
                                   MaxSessions),
        api_events \in SeqsUpTo(EventPool, MaxEvents),
        tz \in {"Europe/London", "Asia/Karachi"},
        host_utcoffset \in {0, 60} :
       val = [NoValidation EXCEPT !.pc = "call", !.user_sessions = user_sessions,
                                  !.api_events = api_events, !.tz = tz,
                                  !.host_utcoffset = host_utcoffset]
  /\ book = Workbook(NoGrid, TwoSheets)
  /\ upd = [p \in Procs |-> Idle]
  /\ inc = [p \in Procs |-> NoIncrement]
  /\ clock = [year |-> 2025, month |-> 1]
  /\ items = {}
  /\ nextId = 1
  /\ prov = [p \in Procs |-> NoSubmission]
  /\ creations = {}

NextValidate ==
  ValidateSessions

SpecValidate == InitValidate /\ [][NextValidate]_vars

S_al == <<"a","l">>
S_AL == <<"A","L">>
S_bo == <<"b","o">>

MaxFeed == 2

FeedEvent(id, subject, start, end) ==
  [id |-> id, subject |-> subject, start |-> Stamp(start, FALSE), end |-> Stamp(end, FALSE),
   location |-> "Room"]

\* events of 10-01-2025 (08:30-09:30 and 09:00-10:00), 21-12-2024,
\* 09-02-2025 and 10-01-2024, their times without a UTC designator
FeedPool ==
  {FeedEvent(1, "A", 510, 570), FeedEvent(2, "B", 540, 600),
   FeedEvent(3, "C", 510 - 20 * 1440, 570 - 20 * 1440),
   FeedEvent(4, "D", 510 + 30 * 1440, 570 + 30 * 1440),
   FeedEvent(5, "E", 510 - 366 * 1440, 570 - 366 * 1440)}

\* a tutor's submission at its calendar step
Tutor(user_sessions, feed, tz, host_utcoffset) ==
  [NoValidation EXCEPT !.pc = "fetch", !.user_sessions = user_sessions, !.feed = feed,
                       !.tz = tz, !.host_utcoffset = host_utcoffset]

\* the calendar step alone, in January or February 2025
InitCalendar ==
  /\ \E user_sessions \in SeqsUpTo({[date |-> "10-01-2025", time |-> t] : t \in {540, 571}}, 1),
        feed \in SeqsUpTo(FeedPool, MaxFeed),
        tz \in {"Europe/London", "Asia/Karachi"},
        today \in {[year |-> 2025, month |-> 1], [year |-> 2025, month |-> 2]} :
       /\ val = Tutor(user_sessions, feed, tz, 0)
       /\ clock = today
  /\ prov = [p \in Procs |-> IF p = 1 THEN [Submission(S_al) EXCEPT !.pc = "calendar"]
                             ELSE NoSubmission]
  /\ items = {}
  /\ nextId = 1
  /\ creations = {}
  /\ book = Workbook(NoGrid, TwoSheets)
  /\ upd = [p \in Procs |-> Idle]
  /\ inc = [p \in Procs |-> NoIncrement]

NextCalendar ==
  \E p \in Procs : FetchCalendarEvents(p)

SpecCalendar == InitCalendar /\ [][NextCalendar]_vars

Folder(id, parent, name) ==
  [id |-> id, parent |-> parent, name |-> name, kind |-> "folder"]

File(id, parent, name) ==
  [id |-> id, parent |-> parent, name |-> name, kind |-> "file"]

\* the drive before the submissions: the academic-year folder with or without
\* 'Invoices'; at the month level nothing, the month folder with or without
\* 'Catalyst', a file of that name, or a folder of a longer name; at the
\* employee level nothing, the employee's folder, a file of that name, or a
\* folder of the name in other letter case
StoreBefore(now, inv, month_item, emp_item) ==
  LET label == current_month_folder_name(now)
      top   == {Folder(1, 0, S_AEBFinancial), Folder(2, 1, current_academic_year(now))}
      invs  == IF inv THEN {Folder(3, 2, S_Invoices)} ELSE {}
      mon   == CASE month_item = "none"       -> {}
                 [] month_item = "folder"     -> {Folder(4, 3, label), Folder(5, 4, S_Catalyst)}
                 [] month_item = "bare"       -> {Folder(4, 3, label)}
                 [] month_item = "file"       -> {File(4, 3, label)}
                 [] month_item = "longer"     -> {Folder(4, 3, RenamedName(label, 1)),
                                                  Folder(5, 4, S_Catalyst)}
      emp   == CASE emp_item = "none"      -> {}
                 [] emp_item = "folder"    -> {Folder(6, 5, title(S_al))}
                 [] emp_item = "file"      -> {File(6, 5, title(S_al))}
                 [] emp_item = "othercase" -> {Folder(6, 5, S_AL)}
  IN top \cup invs \cup (IF inv THEN mon ELSE {})
         \cup (IF inv /\ month_item \in {"folder", "longer"} THEN emp ELSE {})

\* one or two submissions on the same day, for the same or different people
InitFolders ==
  /\ \E now \in {[year |-> 2025, month |-> 2], [year |-> 2024, month |-> 9]},
        inv \in BOOLEAN,
        month_item \in {"none", "folder", "bare", "file", "longer"},
        emp_item \in {"none", "folder", "file", "othercase"},
        n1 \in {S_al, S_AL}, n2 \in {S_al, S_bo, << >>} :
       /\ clock = now
       /\ items = StoreBefore(now, inv, month_item, emp_item)
       /\ nextId = 7
       /\ prov = [p \in Procs |-> IF p = 1 THEN Submission(n1)
                                  ELSE IF n2 = << >> THEN NoSubmission ELSE Submission(n2)]
       /\ creations = {}
  /\ book = Workbook(NoGrid, TwoSheets)
  /\ upd = [p \in Procs |-> Idle]
  /\ OthersIdle

NextFolders ==
  \E p \in Procs :
    \/ CheckBaseFolder(p)
    \/ CreateBaseFolder(p)
    \/ ListMonthFolders(p)
    \/ CreateMonthFolder(p)
    \/ CreateCatalystFolder(p)
    \/ ListEmployeeFolders(p)
    \/ CreateEmployeeFolder(p)

SpecFolders == InitFolders /\ [][NextFolders]_vars

S_Invoice_al_docx == <<"I","n","v","o","i","c","e","_","a","l",".","d","o","c","x">>
S_receipt_pdf == <<"r","e","c","e","i","p","t",".","p","d","f">>
S_Timesheet_al_xlsx == <<"T","i","m","e","s","h","e","e","t","_","a","l",".","x","l","s","x">>

MaxOptionalFiles == 2

\* an uploaded receipt, held in memory, whose name may or may not be the name
\* of a file in the working directory, and the timesheet that fill_timesheet
\* has saved there
OptionalFiles ==
  {[name |-> S_receipt_pdf, on_disk |-> FALSE], [name |-> S_receipt_pdf, on_disk |-> TRUE],
   [name |-> S_Timesheet_al_xlsx, on_disk |-> TRUE]}

\* the submission at the point where the employee folder (id 6) is resolved
Resolved(employee_name, optional_files) ==
  [Submission(employee_name) EXCEPT
     !.pc = "resolved",
     !.BASE_FOLDER_PATH = base_folder_path([year |-> 2025, month |-> 2]),
     !.month_folder = current_month_folder_name([year |-> 2025, month |-> 2]),
     !.FOLDER_PATH = FolderPath(base_folder_path([year |-> 2025, month |-> 2]),
                                current_month_folder_name([year |-> 2025, month |-> 2])),
     !.employee_folder_id = 6,
     !.invoice_file_path = S_Invoice_al_docx,
     !.optional_files = optional_files]

\* one submission, or two for the same employee, with the employee folder
\* resolved; the folder may hold the invoice or the receipt of an earlier
\* submission
InitUpload ==
  /\ \E optional_files \in SeqsUpTo(OptionalFiles, MaxOptionalFiles),
        held \in SUBSET {S_Invoice_al_docx, S_receipt_pdf},
        second \in BOOLEAN :
       /\ items = StoreBefore([year |-> 2025, month |-> 2], TRUE, "folder", "folder")
                    \cup {File(IF name = S_receipt_pdf THEN 7 ELSE 8, 6, name) : name \in held}
       /\ prov = [p \in Procs |-> IF p = 1 THEN Resolved(S_al, optional_files)
                                  ELSE IF second THEN Resolved(S_al, << >>)
                                  ELSE NoSubmission]
  /\ clock = [year |-> 2025, month |-> 2]
  /\ nextId = 9
  /\ creations = {}
  /\ book = Workbook(NoGrid, TwoSheets)
  /\ upd = [p \in Procs |-> Idle]
  /\ OthersIdle

NextUpload ==
  \E p \in Procs :
    \/ UploadInvoice(p)
    \/ UploadOptionalFile(p)

SpecUpload == InitUpload /\ [][NextUpload]_vars

----------------------------------------------------------------------------
(* The Submit handler after process_employee_folder, app_v2.py lines        *)
(* 1224-1236                                                                *)

S_xlsx == <<".","x","l","s","x">>
S_Invoices_xlsx == <<"I","n","v","o","i","c","e","s"," ","2","4","-","2","5",".","x","l","s","x">>

\* name.endswith(suffix)
EndsWith(name, suffix) ==
  Len(name) >= Len(suffix) /\ SubSeq(name, Len(name) - Len(suffix) + 1, Len(name)) = suffix

\* item["name"].endswith(".xlsx") and "Invoices" in item["name"]
IsMasterSheet(item) ==
  EndsWith(item.name, S_xlsx) /\ IsSubstring(S_Invoices, item.name)

\* process_employee_folder has begun its uploads or has returned
EmployeeStepBegun(p) ==
  prov[p].pc \in {"resolved", "optional", "returned", "returned_error"}

\* process_employee_folder has returned its logs or its error string
EmployeeStepReturned(p) ==
  prov[p].pc \in {"returned", "returned_error"}

\* find_master_sheet_path lists f"AEB Financial/{current_academic_year()}";
\* a status other than 200 and a folder without a master sheet both raise.
\* With the path, the handler calls update_mastersheet_sharepoint for the
\* month datetime.now().strftime("%b-%y")
FindMasterSheet(p) ==
  /\ EmployeeStepReturned(p)
  /\ LET folder == PathId(items, 0, <<S_AEBFinancial, current_academic_year(clock)>>)
     IN \E ok \in BOOLEAN :
          IF ok /\ folder # -1 /\ IsFolder(items, folder)
                /\ \E item \in Children(items, folder) : IsMasterSheet(item)
          THEN /\ prov' = [prov EXCEPT ![p].pc = "ledger",
                                       ![p].academic_year = current_academic_year(clock)]
               /\ upd' = [upd EXCEPT ![p] = Call("v2", prov[p].employee_name, prov[p].total,
                                                 MonthLabel(clock.year, clock.month))]
          ELSE Crash(p) /\ UNCHANGED upd
  /\ UNCHANGED <<book, inc, val, clock, items, nextId, creations>>

\* a handler that goes on to the counter only after a written total
CallIncrementIfUpdated(p) ==
  /\ prov[p].pc = "ledger"
  /\ upd[p].pc = "done"
  /\ IF upd[p].ret = "Successfully updated total"
     THEN /\ prov' = [prov EXCEPT ![p].pc = "increment"]
          /\ inc' = [inc EXCEPT ![p] = Increment(prov[p].email, book.cells[EmailSheet])]
     ELSE /\ prov' = [prov EXCEPT ![p].pc = "stopped"]
          /\ UNCHANGED inc
  /\ UNCHANGED <<book, upd, val, clock, items, nextId, creations>>

\* update_mastersheet_sharepoint has returned its message: the handler calls
\* increment_invoice_number for the submitter's email
CallIncrementInvoiceNumber(p) ==
  /\ prov[p].pc = "ledger"
  /\ upd[p].pc = "done"
  /\ prov' = [prov EXCEPT ![p].pc = "increment"]
  /\ inc' = [inc EXCEPT ![p] = Increment(prov[p].email, book.cells[EmailSheet])]
  /\ UNCHANGED <<book, upd, val, clock, items, nextId, creations>>

\* one submission by 'al' (al@x, total 250) in February 2025, from its first
\* request on: the drive with or without 'Invoices', the month folder, the
\* employee folder and the master sheet; no optional file, the timesheet, or
\* a receipt
InitSubmit ==
  /\ \E inv \in BOOLEAN, month_item \in {"none", "folder", "bare"},
        emp_item \in {"none", "folder"}, master \in BOOLEAN,
        optional_files \in SeqsUpTo(OptionalFiles, 1) :
       /\ items = StoreBefore([year |-> 2025, month |-> 2], inv, month_item, emp_item)
                    \cup (IF master THEN {File(7, 2, S_Invoices_xlsx)} ELSE {})
       /\ prov = [p \in Procs |->
                    IF p = 1
                    THEN [Submission(S_al) EXCEPT !.email = S_a_x, !.total = 250,
                                                  !.invoice_file_path = S_Invoice_al_docx,
                                                  !.optional_files = optional_files]
                    ELSE NoSubmission]
  /\ clock = [year |-> 2025, month |-> 2]
  /\ nextId = 8
  /\ creations = {}
  /\ book = [Workbook(HeaderGrid(SerialHeaders)
                      @@ NameRows(<<<<Text(CategoryMarker), Text(title(S_al))>>>>), TwoSheets)
               EXCEPT !.cells[EmailSheet] = Roster(0, <<<<Text(S_a_x), Num(41, FALSE)>>>>)]
  /\ upd = [p \in Procs |-> Idle]
  /\ OthersIdle

NextSubmit ==
  \E p \in Procs :
    \/ CheckBaseFolder(p)
    \/ CreateBaseFolder(p)
    \/ ListMonthFolders(p)
    \/ CreateMonthFolder(p)
    \/ CreateCatalystFolder(p)
    \/ ListEmployeeFolders(p)
    \/ CreateEmployeeFolder(p)
    \/ UploadInvoice(p)
    \/ UploadOptionalFile(p)
    \/ FindMasterSheet(p)
    \/ FetchFileId(p)
    \/ FetchWorksheets(p)
    \/ FetchMonthHeaders(p)
    \/ FetchEmployeeRows(p)
    \/ PatchTargetCell(p)
    \/ CallIncrementInvoiceNumber(p)
    \/ IncFetchFileId(p)
    \/ IncFetchUsedRange(p)
    \/ IncFetchCurrentValue(p)
    \/ IncPatchInvoiceNumber(p)

SpecSubmit == InitSubmit /\ [][NextSubmit]_vars

MaxMonthsPassing == 1

\* the month of the first day of a submission
SubmitDates ==
  {[year |-> 2025, month |-> 2], [year |-> 2025, month |-> 7]}

\* the clock passes to the next month while a submission is under way, at
\* most MaxMonthsPassing times
MonthPasses ==
  /\ \E p \in Procs : prov[p].pc \notin {"idle", "crashed", "increment"}
  /\ \E first \in SubmitDates :
       /\ next_folder_index(first) <= next_folder_index(clock)
       /\ next_folder_index(clock) < next_folder_index(first) + MaxMonthsPassing
  /\ clock' = NextMonth(clock)
  /\ UNCHANGED <<items, nextId, prov, creations, ledgerVars>>

\* one submission by 'al' that begins in February or in July 2025, the month
\* folder of that month present or not
InitSubmitClock ==
  /\ \E now \in SubmitDates, month_item \in {"none", "folder"},
        emp_item \in {"none", "folder"} :
       /\ clock = now
       /\ items = StoreBefore(now, TRUE, month_item, emp_item)
                    \cup {File(7, 2, S_Invoices_xlsx)}
  /\ prov = [p \in Procs |->
               IF p = 1
               THEN [Submission(S_al) EXCEPT !.email = S_a_x, !.total = 250,
                                             !.invoice_file_path = S_Invoice_al_docx,
                                             !.optional_files =
                                               <<[name |-> S_Timesheet_al_xlsx,
                                                  on_disk |-> TRUE]>>]
               ELSE NoSubmission]
  /\ nextId = 8
  /\ creations = {}
  /\ book = [Workbook(HeaderGrid(SerialHeaders)
                      @@ NameRows(<<<<Text(CategoryMarker), Text(title(S_al))>>>>), TwoSheets)
               EXCEPT !.cells[EmailSheet] = Roster(0, <<<<Text(S_a_x), Num(41, FALSE)>>>>)]
  /\ upd = [p \in Procs |-> Idle]
  /\ OthersIdle

NextSubmitClock ==
  \/ MonthPasses
  \/ \E p \in Procs :
       \/ CheckBaseFolder(p)
       \/ CreateBaseFolder(p)
       \/ ListMonthFolders(p)
       \/ CreateMonthFolder(p)
       \/ CreateCatalystFolder(p)
       \/ ListEmployeeFolders(p)
       \/ CreateEmployeeFolder(p)
       \/ UploadInvoice(p)
       \/ UploadOptionalFile(p)
       \/ FindMasterSheet(p)
       \/ FetchFileId(p)
       \/ FetchWorksheets(p)
       \/ FetchMonthHeaders(p)
       \/ FetchEmployeeRows(p)
       \/ PatchTargetCell(p)
       \/ CallIncrementInvoiceNumber(p)
       \/ IncFetchFileId(p)
       \/ IncFetchUsedRange(p)
       \/ IncFetchCurrentValue(p)
       \/ IncPatchInvoiceNumber(p)

SpecSubmitClock == InitSubmitClock /\ [][NextSubmitClock]_vars

\* one submission by 'al' (total 250) whose files were uploaded, in February
\* or in May 2025, on a ledger with headers for January to March 2025, a row
\* for 'Al' or for 'Alice' only, visible sheets or none, and a roster that
\* holds al@x or not, with an empty, an integer or an unreadable counter
InitReconcile ==
  /\ \E now \in {[year |-> 2025, month |-> 2], [year |-> 2025, month |-> 5]},
        name \in {title(S_al), S_Alice},
        email \in {S_a_x, S_b_x},
        counter \in {Empty, Num(41, FALSE), Text(<<"n","o">>)},
        sheets \in {TwoSheets,
                    <<[name |-> MasterSheet, visibility |-> "Hidden"],
                      [name |-> EmailSheet, visibility |-> "VeryHidden"]>>},
        old \in {Empty, Num(75, FALSE)} :
       /\ clock = now
       /\ items = StoreBefore(now, TRUE, "folder", "folder")
                    \cup {File(7, 2, S_Invoices_xlsx), File(8, 6, S_Invoice_al_docx)}
       /\ prov = [p \in Procs |->
                    IF p = 1
                    THEN [Submission(S_al) EXCEPT
                            !.pc = "returned", !.email = S_a_x, !.total = 250,
                            !.BASE_FOLDER_PATH = base_folder_path(now),
                            !.month_folder = current_month_folder_name(now),
                            !.FOLDER_PATH = FolderPath(base_folder_path(now),
                                                       current_month_folder_name(now)),
                            !.employee_folder_id = 6,
                            !.invoice_file_path = S_Invoice_al_docx,
                            !.requests = <<[file |-> S_Invoice_al_docx, status |-> 201]>>,
                            !.logs = <<LogEntry("Files uploaded successfully to folder",
                                                title(S_al), 0)>>]
                    ELSE NoSubmission]
       /\ book = [Workbook(HeaderGrid(SerialHeaders)
                           @@ NameRows(<<<<Text(CategoryMarker), Text(name)>>>>)
                           @@ [rc \in {<<start_row, start_month_column>>} |-> old],
                           sheets)
                    EXCEPT !.cells[EmailSheet] = Roster(0, <<<<Text(email), counter>>>>)]
  /\ nextId = 9
  /\ creations = {}
  /\ upd = [p \in Procs |-> Idle]
  /\ OthersIdle

NextReconcile ==
  \E p \in Procs :
    \/ FindMasterSheet(p)
    \/ FetchFileId(p)
    \/ FetchWorksheets(p)
    \/ FetchMonthHeaders(p)
    \/ FetchEmployeeRows(p)
    \/ PatchTargetCell(p)
    \/ CallIncrementInvoiceNumber(p)
    \/ IncFetchFileId(p)
    \/ IncFetchUsedRange(p)
    \/ IncFetchCurrentValue(p)
    \/ IncPatchInvoiceNumber(p)

SpecReconcile == InitReconcile /\ [][NextReconcile]_vars

\* one submission by the tutor 'al' in January 2025, from the calendar step
\* on: sessions at 09:00 and 09:31, a calendar with or without the event
\* 08:30-09:30
InitTutor ==
  /\ \E inv \in BOOLEAN, month_item \in {"none", "folder"}, emp_item \in {"none", "folder"},
        optional_files \in SeqsUpTo(OptionalFiles, 1),
        user_sessions \in SeqsUpTo({[date |-> "10-01-2025", time |-> t] : t \in {540, 571}}, 2)
                            \ {<< >>},
        feed \in SeqsUpTo({FeedEvent(1, "A", 510, 570)}, 1) :
       /\ items = StoreBefore([year |-> 2025, month |-> 1], inv, month_item, emp_item)
                    \cup {File(7, 2, S_Invoices_xlsx)}
       /\ prov = [p \in Procs |->
                    IF p = 1
                    THEN [Submission(S_al) EXCEPT !.pc = "calendar", !.email = S_a_x,
                                                  !.total = 250,
                                                  !.invoice_file_path = S_Invoice_al_docx,
                                                  !.optional_files = optional_files]
                    ELSE NoSubmission]
       /\ val = Tutor(user_sessions, feed, "Europe/London", 0)
  /\ clock = [year |-> 2025, month |-> 1]
  /\ nextId = 8
  /\ creations = {}
  /\ book = [Workbook(HeaderGrid(SerialHeaders)
                      @@ NameRows(<<<<Text(CategoryMarker), Text(title(S_al))>>>>), TwoSheets)
               EXCEPT !.cells[EmailSheet] = Roster(0, <<<<Text(S_a_x), Num(41, FALSE)>>>>)]
  /\ upd = [p \in Procs |-> Idle]
  /\ inc = [p \in Procs |-> NoIncrement]

NextTutor ==
  \E p \in Procs :
    \/ FetchCalendarEvents(p)
    \/ CheckBaseFolder(p)
    \/ CreateBaseFolder(p)
    \/ ListMonthFolders(p)
    \/ CreateMonthFolder(p)
    \/ CreateCatalystFolder(p)
    \/ ListEmployeeFolders(p)
    \/ CreateEmployeeFolder(p)
    \/ UploadInvoice(p)
    \/ UploadOptionalFile(p)
    \/ FindMasterSheet(p)
    \/ FetchFileId(p)
    \/ FetchWorksheets(p)
    \/ FetchMonthHeaders(p)
    \/ FetchEmployeeRows(p)
    \/ PatchTargetCell(p)
    \/ CallIncrementInvoiceNumber(p)
    \/ IncFetchFileId(p)
    \/ IncFetchUsedRange(p)
    \/ IncFetchCurrentValue(p)
    \/ IncPatchInvoiceNumber(p)

SpecTutor == InitTutor /\ [][NextTutor]_vars

MaxYears == 4

\* a month passes, up to MaxYears years after the epoch year
Tick ==
  /\ NextMonth(clock).year <= start_year + MaxYears
  /\ clock' = NextMonth(clock)
  /\ UNCHANGED <<items, nextId, prov, creations, ledgerVars>>

\* two submissions of the same version, from the epoch month July 2024 on
InitDates ==
  /\ clock = [year |-> start_year, month |-> base_month]
  /\ \E ver \in {"v1", "v2"} :
       prov = [p \in Procs |-> [Submission(S_al) EXCEPT !.pc = "name", !.ver = ver]]
  /\ items = {}
  /\ nextId = 1
  /\ creations = {}
  /\ book = Workbook(NoGrid, TwoSheets)
  /\ upd = [p \in Procs |-> Idle]
  /\ OthersIdle

NextDates ==
  \/ Tick
  \/ \E p \in Procs : NameFolders(p)

SpecDates == InitDates /\ [][NextDates]_vars

----------------------------------------------------------------------------
(* Properties of the ledger cell resolver and updater *)

\* the 'Mon-YY' token a header cell denotes, whichever way it is stored
\* (<< >> for a cell that denotes no month)
MonthToken(cell) ==
  CASE cell.t = "text" -> cell.s
    [] cell.t = "num"  -> MonthLabel(SerialToDate(cell.n).y, SerialToDate(cell.n).m)
    [] OTHER           -> << >>

\* the sheet a call resolves in
SheetOf(p) ==
  IF upd[p].ver = "v1" THEN book.cells[book.active]
  ELSE IF upd[p].sheet = "" THEN NoGrid
  ELSE book.cells[upd[p].sheet]

\* the columns H..S whose header denotes the month the call asks for
MonthColumns(p) ==
  {c \in start_month_column..(start_month_column + MonthColumnSpan - 1) :
     MonthToken(CellAt(SheetOf(p), month_headers_row, c)) = upd[p].month}

\* the call has got past its column resolution, or ended in it
ColumnResolved(p) ==
  \/ upd[p].pc \in {"names", "patch", "upload"}
  \/ upd[p].pc = "done" /\ upd[p].ret \in
       {"Error: Month not found in master sheet.", "Error fetching employee rows",
        "Error: Employee not found in the master sheet.", "An error occurred",
        "Error updating cell", "Error uploading file back to SharePoint",
        "Successfully updated total"}

\* the call has got past its row resolution, or ended in it
RowResolved(p) ==
  \/ upd[p].pc \in {"patch", "upload"}
  \/ upd[p].pc = "done" /\ upd[p].ret \in
       {"Error: Employee not found in the master sheet.", "An error occurred",
        "Error updating cell", "Error uploading file back to SharePoint",
        "Successfully updated total"}

\* the row resolution of the call has returned a row or None, not raised
RowReturned(p) ==
  RowResolved(p) /\ upd[p].ret # "An error occurred"

IsExampleHeaders(grid) ==
  \A i \in 1..3 : CellAt(grid, month_headers_row, start_month_column + i - 1) = ExampleHeaders[i]

\* C5: column resolution (app_v2.py) returns the lowest column of H..S whose month token
\* equals the requested label, and 'Month not found' when there is none; in
\* particular on the header row Jan-25, Feb-25, Mar-25 from column 8, Feb-25
\* resolves to column 9 and Dec-24 to 'Month not found'.
C5_ColumnResolution ==
  \A p \in Procs : (upd[p].ver = "v2" /\ ColumnResolved(p)) =>
    /\ IF MonthColumns(p) = {}
       THEN upd[p].ret = "Error: Month not found in master sheet."
       ELSE upd[p].col = Min(MonthColumns(p))
    /\ (IsExampleHeaders(SheetOf(p)) /\ upd[p].month = S_Feb25) => upd[p].col = start_month_column + 1
    /\ (IsExampleHeaders(SheetOf(p)) /\ upd[p].month = S_Dec24) =>
          upd[p].ret = "Error: Month not found in master sheet."

\* C6: a header that denotes the requested month is matched whichever way it
\* is stored (token text, date, serial number): a call never ends with
\* 'Month not found' while some header in H..S denotes that month.
C6_AnyRepresentationMatches ==
  \A p \in Procs :
    (upd[p].ret = "Error: Month not found in master sheet.") => MonthColumns(p) = {}

\* runs of whitespace reduced to one space
CollapseSpaces(s) ==
  LET keep == {i \in DOMAIN s : ~(s[i] \in Whitespace /\ i > 1 /\ s[i - 1] \in Whitespace)}
      nth(k) == CHOOSE i \in keep : Cardinality({j \in keep : j <= i}) = k
  IN [k \in 1..Cardinality(keep) |-> IF s[nth(k)] \in Whitespace THEN " " ELSE s[nth(k)]]

\* C7: the row a call has chosen holds the category marker
\* 'STARFLEET / Catalyst' in column B.
C7_ChosenRowHasMarker ==
  \A p \in Procs : upd[p].row # 0 =>
    /\ CellAt(SheetOf(p), upd[p].row, text_column).t = "text"
    /\ CollapseSpaces(CellAt(SheetOf(p), upd[p].row, text_column).s) = CollapseSpaces(CategoryMarker)

\* the text of a name cell (an empty cell reads as "")
NameText(grid, r) ==
  IF CellAt(grid, r, name_column).t = "text" THEN CellAt(grid, r, name_column).s ELSE << >>

\* the rows of B1:C147 whose normalized name equals the normalized employee name
MatchingRows(p) ==
  {r \in 1..NameRangeLastRow :
     NormalizeName(NameText(SheetOf(p), r)) = NormalizeName(upd[p].employee_name)}

IsExampleRows(grid) ==
  /\ CellAt(grid, start_row, text_column) = Text(S_Other)
  /\ CellAt(grid, start_row, name_column) = Text(S_Alice)
  /\ CellAt(grid, start_row + 1, text_column) = Text(CategoryMarker)
  /\ CellAt(grid, start_row + 1, name_column) = Text(S_BobTemp)

IsNormalKey(k) ==
  /\ Len(k) > 0 => (k[1] \notin Whitespace /\ k[Len(k)] \notin Whitespace)
  /\ \A i \in DOMAIN k : IndexOf(k[i], UpperCase) = 0
  /\ ~ \E i, j \in DOMAIN k : i < j /\ k[i] = "(" /\ k[j] = ")"

\* C9: the key of every ledger name and of every user-supplied name is
\* trimmed, case-folded and without parenthetical annotation; the app_v2.py
\* lookup chooses a row only if its key equals the key of the employee name,
\* and fails with 'Employee not found' only if no row has that key; a ledger
\* name "jane doe " is found for the employee "Jane Doe (Maternity)".
C9_NameNormalization ==
  \A p \in Procs : upd[p].ver = "v2" =>
    /\ IsNormalKey(NormalizeName(upd[p].employee_name))
    /\ \A r \in start_row..(start_row + MaxNameRows) :
         IsNormalKey(NormalizeName(NameText(SheetOf(p), r)))
    /\ upd[p].row # 0 =>
         NormalizeName(NameText(SheetOf(p), upd[p].row)) = NormalizeName(upd[p].employee_name)
    /\ upd[p].ret = "Error: Employee not found in the master sheet." => MatchingRows(p) = {}
    /\ (RowReturned(p) /\ upd[p].employee_name = S_JaneMaternity
          /\ \E r \in 1..NameRangeLastRow : NameText(SheetOf(p), r) = S_jane_doe_)
       => (upd[p].row # 0 /\ NormalizeName(NameText(SheetOf(p), upd[p].row)) = NormalizeName(S_jane_doe_))

C9_Witness ==
  \E p \in Procs :
    /\ upd[p].ver = "v2" /\ upd[p].employee_name = S_JaneMaternity
    /\ upd[p].row # 0 /\ NameText(SheetOf(p), upd[p].row) = S_jane_doe_

\* C10: a successful app_v2.py update changes the workbook in exactly one
\* cell, the one at (resolved row, resolved column) of the resolved sheet,
\* which then holds the submitted total whatever it held before.
C10_SingleCellOverwrite ==
  [][\A p \in Procs :
       (upd[p].pc = "patch" /\ upd'[p].ret = "Successfully updated total") =>
         LET target == <<upd[p].row, upd[p].col>>
             before == book.cells[upd[p].sheet]
             after  == book'.cells[upd[p].sheet]
         IN /\ target \in DOMAIN after
            /\ after[target].t = "num" /\ after[target].n = upd[p].total
            /\ DOMAIN after = DOMAIN before \cup {target}
            /\ \A rc \in DOMAIN before : rc # target => after[rc] = before[rc]
            /\ \A n \in DOMAIN book.cells : n # upd[p].sheet => book'.cells[n] = book.cells[n]
            /\ book'.worksheets = book.worksheets /\ book'.active = book.active]_vars

\* a total has been written over an older one while another cell still
\* holds the older total
C10_Witness ==
  \E p \in Procs :
    /\ upd[p].pc = "done" /\ upd[p].ret = "Successfully updated total"
    /\ book.cells[MasterSheet][<<start_row, start_month_column + 1>>] = Num(upd[p].total, FALSE)
    /\ book.cells[MasterSheet][<<start_row + 1, start_month_column>>] = Num(75, FALSE)

\* the ledger cell a call resolved
TargetOf(p) ==
  <<upd[p].sheet, upd[p].row, upd[p].col>>

Updated(p) ==
  upd[p].pc = "done" /\ upd[p].ret = "Successfully updated total"

HoldsTotal(p) ==
  LET cell == CellAt(book.cells[upd[p].sheet], upd[p].row, upd[p].col)
  IN cell.t = "num" /\ cell.n = upd[p].total

\* C28: when two app_v2.py calls of update_mastersheet_sharepoint that
\* resolved different ledger cells have both returned success, in whatever
\* order their requests were interleaved, the ledger holds both totals, each
\* in its cell.
C28_BothTotalsKept ==
  \A p \in Procs : \A q \in Procs \ {p} :
    /\ upd[p].ver = "v2" /\ upd[q].ver = "v2"
    /\ Updated(p) /\ Updated(q)
    /\ TargetOf(p) # TargetOf(q)
    => HoldsTotal(p) /\ HoldsTotal(q)

\* both calls succeeded, for two months of the same employee, over older
\* totals
C28_Witness ==
  /\ Updated(1) /\ Updated(2)
  /\ upd[1].row = upd[2].row /\ upd[1].col # upd[2].col
  /\ HoldsTotal(1) /\ HoldsTotal(2)
  /\ book.cells[MasterSheet][<<start_row + 1, start_month_column>>] = Num(75, FALSE)

\* C25: two app.py calls of update_mastersheet_sharepoint for different
\* employees can both return success and leave a ledger that holds only one
\* of the two totals: the ledger is then the copy that one call changed and
\* uploaded, at least one of the totals is stored, and a total is missing
\* only because the copy uploaded last was downloaded without it.
C25_LastUploadWins ==
  \A p \in Procs : \A q \in Procs \ {p} :
    /\ upd[p].ver = "v1" /\ upd[q].ver = "v1"
    /\ Updated(p) /\ Updated(q)
    /\ upd[p].employee_name # upd[q].employee_name
    => /\ book \in {upd[p].local, upd[q].local}
       /\ HoldsTotal(p) \/ HoldsTotal(q)
       /\ ~HoldsTotal(p) => book = upd[q].local /\ book # upd[p].local

\* both calls returned success for different employees, and the ledger holds
\* the total of the second call but not that of the first
C25_Witness ==
  /\ upd[1].ver = "v1" /\ upd[2].ver = "v1"
  /\ Updated(1) /\ Updated(2)
  /\ upd[1].employee_name # upd[2].employee_name
  /\ upd[1].row # upd[2].row
  /\ HoldsTotal(2) /\ ~HoldsTotal(1)

----------------------------------------------------------------------------
(* Properties of folder provisioning *)

CreatedBy(p, seg) ==
  {c \in creations : c.by = p /\ c.seg = seg}

\* C1: folder provisioning is idempotent.  A month step run after another
\* submission's month step has returned, and an employee step run after
\* another submission's employee step has succeeded for the same parent path
\* and the same name, resolves to the same folder as the earlier run and
\* issues no creation request.
C1_ProvisioningIdempotent ==
  \A p \in Procs : \A q \in Procs \ {p} :
    /\ prov[p].month_seen.after =>
         /\ CreatedBy(p, "month") = {}
         /\ prov[p].pc # "month_create"
         /\ MonthStepDone(p) /\ MonthStepDone(q) => prov[p].month_folder = prov[q].month_folder
    /\ prov[p].emp_seen.after =>
         /\ CreatedBy(p, "employee") = {}
         /\ prov[p].pc # "emp_create"
         /\ prov[p].pc = "resolved" => prov[p].employee_folder_id = prov[q].employee_folder_id

\* the destination chain of a submission made at the current date
DestinationChain ==
  base_folder_path(clock) \o <<current_month_folder_name(clock), S_Catalyst>>

\* C2: once the base, month and employee folder steps of a submission have
\* all completed without raising or returning an error, every segment of
\* 'AEB Financial/<academic-year>/Invoices/<month folder>/Catalyst' is a folder
\* of the drive and the employee folder the submission resolved is a folder
\* directly below it, named after the title-cased employee name.
C2_DestinationChainExists ==
  \A p \in Procs :
    prov[p].pc = "resolved" =>
      LET parent == PathId(items, 0, DestinationChain)
      IN /\ \A k \in 1..Len(DestinationChain) :
              LET id == PathId(items, 0, SubSeq(DestinationChain, 1, k))
              IN id # -1 /\ IsFolder(items, id)
         /\ \E i \in items :
              /\ i.id = prov[p].employee_folder_id
              /\ i.kind = "folder"
              /\ i.parent = parent
              /\ \E k \in 0..Cardinality(items) :
                   i.name = RenamedName(title(prov[p].employee_name), k)

\* a submission that found only 'Invoices' and created the month folder,
\* 'Catalyst' and the employee folder itself has completed
C2_Witness ==
  \E p \in Procs :
    /\ prov[p].pc = "resolved"
    /\ CreatedBy(p, "month") # {}
    /\ CreatedBy(p, "catalyst") # {}
    /\ CreatedBy(p, "employee") # {}

\* C3: at the month segment and at the employee segment alike, an existing
\* folder is reused if and only if a child folder whose name equals the
\* expected name exactly was among the children listed; otherwise a creation
\* request for that name follows.
C3_ReuseIffExactName ==
  \A p \in Procs :
    /\ prov[p].month_seen.reused <=> prov[p].month_seen.exact
    /\ prov[p].emp_seen.reused <=> prov[p].emp_seen.exact

\* C4: for every interleaving of two submissions, no creation request is
\* executed while a child folder of the expected name already exists under
\* the parent, so no parent holds both a folder and an auto-renamed copy of
\* it made for the same segment.
C4_SegmentNeverDuplicated ==
  /\ \A c \in creations : ~c.matched
  /\ \A c \in creations :
       c.got # c.name =>
         ~\E i \in Children(items, c.parent) : i.kind = "folder" /\ i.name = c.name

\* what submission c.by saw when it listed the parent for c's segment
SeenBefore(c) ==
  IF c.seg = "month" THEN prov[c.by].month_seen
  ELSE IF c.seg = "employee" THEN prov[c.by].emp_seen
  ELSE NotSeen

\* C4 (amended): a creation request for a segment is executed while a child
\* folder of exactly the expected name exists only if another submission
\* created that folder after the requester had listed the parent: the
\* requester saw no such folder, and had not listed after the other
\* submission's step was complete.
C4_DuplicateOnlyByOverlap ==
  \A c \in creations :
    c.matched =>
      /\ ~SeenBefore(c).exact
      /\ ~SeenBefore(c).after
      /\ \E d \in creations :
           d.by # c.by /\ d.seg = c.seg /\ d.parent = c.parent /\ d.got = c.name

\* of two submissions for the same employee, the second listed the parent
\* after the first had created the folder, and reused it
C4_Witness ==
  \E p \in Procs : \E q \in Procs \ {p} :
    /\ prov[p].pc = "resolved" /\ prov[p].emp_seen.after /\ prov[p].emp_seen.reused
    /\ CreatedBy(q, "employee") # {} /\ CreatedBy(p, "employee") = {}
    /\ prov[p].employee_folder_id = prov[q].employee_folder_id

----------------------------------------------------------------------------
(* Properties of the invoice-number increment *)

Roster_ == book.cells[EmailSheet]

\* a counter cell the claim speaks of: empty or an integer
IsCounter(cell) ==
  cell.t = "empty" \/ cell.t = "num" \/ (cell.t = "text" /\ IsIntText(cell.s))

\* its value, an empty cell counting as 0
CounterValue(cell) ==
  CASE cell.t = "num"  -> cell.n
    [] cell.t = "text" -> DigitsValue(strip(cell.s))
    [] OTHER           -> 0

Alone(p) ==
  \A q \in Procs \ {p} : inc[q].pc = "idle"

Succeeded(p) ==
  inc[p].pc = "done" /\ inc[p].ret = "Successfully incremented invoice number"

\* C11: a call that runs alone goes on to the counter exactly when a roster
\* row holds target_email in its email cell, and otherwise ends with 'Email
\* not found'; the value it computes is the counter of the first such row
\* plus one, an empty counter counting as 0; on success that row's counter
\* cell holds the value; it fails on the value only when the counter is not
\* an integer.
C11_IncrementInvoiceNumber ==
  \A p \in Procs :
    Alone(p) =>
      LET rows == RosterRows(Roster_, inc[p].target_email)
      IN /\ inc[p].pc \in {"current", "patch"} => rows # {}
         /\ inc[p].ret = "Error: Email not found in the 'Email' sheet." <=>
              (inc[p].pc = "done" /\ rows = {}
                 /\ inc[p].ret \notin {"Error fetching file ID", "Error fetching used range"})
         /\ inc[p].pc = "patch" => inc[p].new_value = CounterValue(inc[p].initial) + 1
         /\ inc[p].ret = "An error occurred" => ~IsCounter(inc[p].initial)
         /\ Succeeded(p) =>
              /\ CounterCell(Roster_, inc[p].target_email).t = "num"
              /\ CounterCell(Roster_, inc[p].target_email).n = CounterValue(inc[p].initial) + 1

\* C12: two calls for the same email that both report success leave the
\* counter at its initial value plus 2 and report different new values (on
\* a roster whose used range begins at row 1).
C12_IncrementAtomic ==
  \A p \in Procs : \A q \in Procs \ {p} :
    /\ Succeeded(p) /\ Succeeded(q)
    /\ inc[p].target_email = inc[q].target_email
    /\ UsedRange(Roster_).top = 1
    => /\ CounterCell(Roster_, inc[p].target_email).n = CounterValue(inc[p].initial) + 2
       /\ inc[p].new_value # inc[q].new_value

\* the cells of the roster that a step changed
ChangedRosterCells ==
  {rc \in (DOMAIN book.cells[EmailSheet]) \cup (DOMAIN book'.cells[EmailSheet]) :
     CellAt(book'.cells[EmailSheet], rc[1], rc[2]) # CellAt(book.cells[EmailSheet], rc[1], rc[2])}

\* C27: the PATCH of increment_invoice_number changes no cell but the
\* invoice-number cell of the worksheet row in whose email cell target_email
\* was found, wherever the used range of the roster begins; the counter of
\* another employee is never changed.
C27_CounterOfTheSameRow ==
  [][\A p \in Procs :
       inc[p].pc = "patch" /\ inc'[p].pc = "done" =>
         ChangedRosterCells \subseteq
           {<<r, invoice_number_column>> : r \in RosterRows(Roster_, inc[p].target_email)}]_vars

----------------------------------------------------------------------------
(* Properties of the session validation *)

\* every event time carries its UTC designator
UtcQualified(api_events) ==
  \A j \in DOMAIN api_events : api_events[j].start.utc /\ api_events[j].end.utc

\* the session's instant, in minutes of UTC
SessionInstant(session, user_timezone_str) ==
  session.time - utcoffset(user_timezone_str)

\* the events whose interval holds the instant, both ends included
Containing(api_events, at) ==
  {j \in DOMAIN api_events : api_events[j].start.at <= at /\ at <= api_events[j].end.at}

\* C13: for UTC-qualified events, validate_sessions gives one result per
\* session, in order; the session is 'Matched' with the first event in list
\* order whose interval [start, end] holds the session's time localized in
\* the chosen timezone, both ends included, the event's times are reported
\* in that timezone, and the session is 'No Match Found' when no event holds
\* it.
C13_SessionMatching ==
  (val.pc = "done" /\ UtcQualified(val.api_events)) =>
    /\ DOMAIN val.validation_results = DOMAIN val.user_sessions
    /\ \A i \in DOMAIN val.user_sessions :
         LET result == val.validation_results[i]
             hits == Containing(val.api_events,
                                SessionInstant(val.user_sessions[i], val.tz))
         IN /\ result.Session = val.user_sessions[i]
            /\ IF hits = {} THEN result.Status = "No Match Found"
               ELSE /\ result.Status = "Matched"
                    /\ result.Event.title = val.api_events[Min(hits)].title
                    /\ result.Event.start =
                         val.api_events[Min(hits)].start.at + utcoffset(val.tz)
                    /\ result.Event.end =
                         val.api_events[Min(hits)].end.at + utcoffset(val.tz)

\* in Asia/Karachi, a session at the very end of an event (14:30 for 09:30Z)
\* is matched and a session one minute later is not
C13_Witness ==
  /\ val.pc = "done" /\ UtcQualified(val.api_events) /\ val.tz = "Asia/Karachi"
  /\ Len(val.api_events) = 1
  /\ \E i \in DOMAIN val.user_sessions : \E k \in DOMAIN val.user_sessions :
       /\ SessionInstant(val.user_sessions[i], val.tz) = val.api_events[1].end.at
       /\ val.validation_results[i].Status = "Matched"
       /\ SessionInstant(val.user_sessions[k], val.tz) = val.api_events[1].end.at + 1
       /\ val.validation_results[k].Status = "No Match Found"

----------------------------------------------------------------------------
(* Properties of the uploads *)

IsErrorEntry(entry) ==
  entry.msg \in {"Error uploading invoice", "Error uploading file"}

IsAlreadyExistsEntry(entry) ==
  entry.msg \in {"Invoice Already exist with the same name.",
                 "Receipt Already exist with the same name."}

\* the entries a step added to the log of submission p, the closing 'Files
\* uploaded successfully' entry left out
FileEntriesAdded(p) ==
  SelectSeq(SubSeq(prov'[p].logs, Len(prov[p].logs) + 1, Len(prov'[p].logs)),
            LAMBDA entry : entry.msg # "Files uploaded successfully to folder")

\* C14: an upload request answered 201 (created) adds no entry to the log;
\* one answered 200 (content replaced) adds one 'Already exist' entry naming
\* the file, which is not an error entry; one answered with any other status
\* adds one error entry that carries that status code.
C14_UploadOutcomes ==
  [][\A p \in Procs :
       Len(prov'[p].requests) > Len(prov[p].requests) =>
         LET request == prov'[p].requests[Len(prov'[p].requests)]
             added == FileEntriesAdded(p)
         IN /\ Len(prov'[p].requests) = Len(prov[p].requests) + 1
            /\ request.status = 201 => added = << >>
            /\ request.status = 200 =>
                 /\ Len(added) = 1
                 /\ IsAlreadyExistsEntry(added[1]) /\ ~IsErrorEntry(added[1])
                 /\ added[1].file = request.file
            /\ request.status \notin {200, 201} =>
                 /\ Len(added) = 1
                 /\ IsErrorEntry(added[1])
                 /\ added[1].status = request.status]_vars

\* a submission has returned from its uploads with one request answered 200
\* and logged as 'Already exist', and one answered 503 and logged as an error
C14_Witness ==
  \E p \in Procs :
    /\ prov[p].pc = "returned"
    /\ \E i \in DOMAIN prov[p].requests : prov[p].requests[i].status = 200
    /\ \E i \in DOMAIN prov[p].requests : prov[p].requests[i].status = 503
    /\ \E i \in DOMAIN prov[p].logs : IsAlreadyExistsEntry(prov[p].logs[i])
    /\ \E i \in DOMAIN prov[p].logs :
         IsErrorEntry(prov[p].logs[i]) /\ prov[p].logs[i].status = 503

\* the files process_employee_folder is given, in upload order
FilesToUpload(p) ==
  <<prov[p].invoice_file_path>>
    \o [k \in DOMAIN prov[p].optional_files |-> prov[p].optional_files[k].name]

RequestedFiles(p) ==
  [k \in DOMAIN prov[p].requests |-> prov[p].requests[k].file]

\* C15: once the employee folder is resolved, the upload requests made so
\* far are the first files of the list 'invoice, then the optional files in
\* order', one request each, and when process_employee_folder has ended,
\* whatever the statuses were, there is one request for every file.
C15_OneRequestPerFile ==
  \A p \in Procs :
    prov[p].employee_folder_id # -1 =>
      /\ Len(RequestedFiles(p)) <= Len(FilesToUpload(p))
      /\ RequestedFiles(p) = SubSeq(FilesToUpload(p), 1, Len(RequestedFiles(p)))
      /\ prov[p].pc \in {"returned", "crashed"} => RequestedFiles(p) = FilesToUpload(p)

----------------------------------------------------------------------------
(* Properties of the submission as a whole *)

\* a request that lists or creates the base, month or employee folder of
\* submission p was answered with a status outside 2xx: the employee step
\* returned its error, or the submission ended by an exception before the
\* employee folder was known
FolderRequestFailed(p) ==
  \/ prov[p].ret \in {"Error fetching parent folder", "Error creating folder"}
  \/ prov[p].pc = "crashed" /\ prov[p].employee_folder_id = -1

LedgerWritten(p) ==
  upd[p].pc = "done" /\ upd[p].ret = "Successfully updated total"

\* C16: a submission one of whose folder requests (base, month or employee
\* folder, listing or creation) was answered with a status outside 2xx makes
\* no upload request, writes no total to the ledger and increments no
\* invoice number.
C16_FolderFailureIsFatal ==
  \A p \in Procs :
    FolderRequestFailed(p) =>
      /\ prov[p].requests = << >>
      /\ ~LedgerWritten(p)
      /\ ~Succeeded(p)

\* C17: no step of a submission ends by an exception: whatever fails, the
\* step returns and the submission goes on.
C17_FailuresAreStrings ==
  \A p \in Procs : prov[p].pc # "crashed"

----------------------------------------------------------------------------
(* Properties of the date-derived names *)

Named(p) ==
  prov[p].pc = "named"

TwoDigits(n) ==
  <<DigitChars[((n % 100) \div 10) + 1], DigitChars[(n % 10) + 1]>>

\* C18: the month-folder index computed at a date is (year - 2024) * 12 +
\* (month - 7) + 1: 1 in July 2024 and at least 2 in every later month; the
\* folder label is '<index>. <MonthName> <YY>'.
C18_MonthIndex ==
  \A p \in Procs :
    Named(p) =>
      LET y == prov[p].at.year
          m == prov[p].at.month
      IN /\ prov[p].next_folder_index = (y - 2024) * 12 + (m - 7) + 1
         /\ (y = 2024 /\ m = 7) => prov[p].next_folder_index = 1
         /\ (y > 2024 \/ m > 7) => prov[p].next_folder_index >= 2
         /\ prov[p].month_folder =
              IntToStr(prov[p].next_folder_index) \o <<".", " ">> \o MonthName[m]
                \o <<" ">> \o TwoDigits(y)

\* the year in whose August the academic cycle of a date begins
CycleStart(date) ==
  IF date.month >= 8 THEN date.year ELSE date.year - 1

Earlier(d, e) ==
  d.year < e.year \/ (d.year = e.year /\ d.month < e.month)

\* C19: of two dates in the same academic cycle (August to July), the later
\* has the strictly greater month-folder index.
C19_MonthIndexMonotonic ==
  \A p \in Procs : \A q \in Procs :
    /\ Named(p) /\ Named(q)
    /\ CycleStart(prov[p].at) = CycleStart(prov[q].at)
    /\ Earlier(prov[p].at, prov[q].at)
    => prov[p].next_folder_index < prov[q].next_folder_index

\* C20: the academic year computed at a date in August..December of year Y
\* is Y/(Y+1), at a date in January..July it is (Y-1)/Y, and it is written
\* as the four digits of the start year, '-', and the last two digits of the
\* end year.
C20_AcademicYear ==
  \A p \in Procs :
    Named(p) =>
      LET y == prov[p].at.year
          first == IF prov[p].at.month \in 8..12 THEN y ELSE y - 1
          last == IF prov[p].at.month \in 8..12 THEN y + 1 ELSE y
      IN /\ Len(IntToStr(first)) = 4
         /\ prov[p].academic_year = IntToStr(first) \o <<"-">> \o TwoDigits(last)

\* one submission has computed its names in August..December and another in
\* January..July
C20_Witness ==
  \E p \in Procs : \E q \in Procs :
    /\ Named(p) /\ prov[p].at.month >= 8
    /\ Named(q) /\ prov[q].at.month <= 7

----------------------------------------------------------------------------
(* Properties of the calendar step *)

\* the positions in the feed of the events that start in the month and year
\* of the clock
InMonth(feed, today) ==
  {i \in DOMAIN feed :
     /\ StartDate(feed[i].start).y = today.year
     /\ StartDate(feed[i].start).m = today.month}

\* the k-th smallest element of a set of numbers
Nth(S, k) ==
  CHOOSE i \in S : Cardinality({j \in S : j <= i}) = k

\* C26: for a feed that was fetched with status 200, fetch_calendar_events
\* returns one entry for every event of the feed that starts in the current
\* month and year, and none for any other event, in the order of the feed,
\* each entry holding the event's id, title, start, end and location.
C26_MonthEventsOnly ==
  (val.pc = "done" /\ val.status = 200) =>
    /\ Len(val.api_events) = Cardinality(InMonth(val.feed, clock))
    /\ \A k \in DOMAIN val.api_events :
         LET event == val.feed[Nth(InMonth(val.feed, clock), k)]
         IN val.api_events[k] =
              [id |-> event.id, title |-> event.subject, start |-> event.start,
               end |-> event.end, location |-> event.location]

\* a feed of an event of the same month of another year and an event of the
\* current month was fetched, and the second alone is returned
C26_Witness ==
  /\ val.pc = "done" /\ val.status = 200
  /\ Len(val.feed) = 2 /\ Len(val.api_events) = 1
  /\ StartDate(val.feed[1].start).m = clock.month
  /\ StartDate(val.feed[1].start).y # clock.year
  /\ val.api_events[1].id = val.feed[2].id

-----------------------------------------------------------------------------
(* Properties of the returned upload log *)

\* the per-file entries of the log, the closing entry left out
FileEntries(logs) ==
  SelectSeq(logs, LAMBDA entry : entry.msg # "Files uploaded successfully to folder")

\* the entry tells the outcome of the request
TellsOutcome(entry, request) ==
  CASE request.status = 201 -> ~IsErrorEntry(entry) /\ ~IsAlreadyExistsEntry(entry)
    [] request.status = 200 -> IsAlreadyExistsEntry(entry) /\ entry.file = request.file
    [] OTHER                -> IsErrorEntry(entry) /\ entry.status = request.status

\* C24: the log that process_employee_folder returns holds one per-file
\* outcome for every file it uploaded, the invoice and then each optional
\* file, in upload order, each telling created, already exists or the error
\* status of that file's request; there are as many per-file outcomes as
\* files.
C24_OneOutcomePerFile ==
  \A p \in Procs :
    prov[p].pc = "returned" =>
      LET outcomes == FileEntries(prov[p].logs)
      IN /\ Len(outcomes) = Len(FilesToUpload(p))
         /\ Len(outcomes) = Len(prov[p].requests)
         /\ \A k \in DOMAIN outcomes : TellsOutcome(outcomes[k], prov[p].requests[k])

----------------------------------------------------------------------------
(* Properties of the ledger steps of the Submit handler *)

ScanFailures ==
  {"Error: Month not found in master sheet.",
   "Error: Employee not found in the master sheet."}

\* C23: a ledger update that finds no column for the month or no row for
\* the employee ends with its message and changes no cell, and the handler
\* goes on to increment_invoice_number whatever the update returned; an
\* increment that finds no row for the email ends with its message and
\* changes no cell, and the submission is not ended by it.
C23_NotFoundContinues ==
  [][\A p \in Procs :
       /\ upd'[p].ret \in ScanFailures /\ upd[p].pc # "done" =>
            /\ book' = book
            /\ upd'[p].pc = "done"
            /\ prov'[p].pc = "ledger"
       /\ prov[p].pc = "ledger" /\ prov'[p].pc # "ledger" =>
            /\ prov'[p].pc = "increment"
            /\ inc'[p].pc = "file"
            /\ inc'[p].target_email = prov[p].email
       /\ inc'[p].ret = "Error: Email not found in the 'Email' sheet." /\ inc[p].pc # "done" =>
            /\ book' = book
            /\ inc'[p].pc = "done"
            /\ prov'[p].pc = "increment"]_vars

\* the month was not found, no total was written, and the invoice number was
\* incremented all the same
C23_Witness ==
  /\ upd[1].ret = "Error: Month not found in master sheet."
  /\ \A rc \in DOMAIN book.cells[MasterSheet] :
       book.cells[MasterSheet][rc] # Num(prov[1].total, FALSE)
  /\ Succeeded(1)
  /\ CounterCell(Roster_, prov[1].email) = Num(42, FALSE)

\* the messages of update_mastersheet_sharepoint for a failed read or an
\* unmatched scan
UpdateReadErrors ==
  {"Error fetching file ID", "Error fetching worksheets",
   "Error: No visible sheets found in the workbook.", "Error fetching month headers",
   "Error: Month not found in master sheet.", "Error fetching employee rows",
   "Error: Employee not found in the master sheet.", "An error occurred"}

\* those of increment_invoice_number
IncrementReadErrors ==
  {"Error fetching file ID", "Error fetching used range", "Error: No data found in the sheet.",
   "Error: Email not found in the 'Email' sheet.", "Error fetching current invoice number",
   "An error occurred"}

\* C29: a call of update_mastersheet_sharepoint or of increment_invoice_number
\* sends at most one PATCH request; a call that ends with the message of a
\* failed read (file id, worksheets, headers, rows, used range, counter), of
\* no visible sheet, of an unmatched month, employee or email, or of a counter
\* that is not an integer has sent none, and the step that ends it leaves
\* the ledger as it was.
C29_AtMostOnePatch ==
  [][\A p \in Procs :
       /\ upd'[p].patches <= 1
       /\ inc'[p].patches <= 1
       /\ upd'[p].pc = "done" /\ upd'[p].ver = "v2" /\ upd'[p].ret \in UpdateReadErrors =>
            /\ upd'[p].patches = 0
            /\ upd[p].pc # "done" => book' = book
       /\ inc'[p].pc = "done" /\ inc'[p].ret \in IncrementReadErrors =>
            /\ inc'[p].patches = 0
            /\ inc[p].pc # "done" => book' = book
       /\ book' # book =>
            \/ upd'[p].patches = upd[p].patches + 1
            \/ inc'[p].patches = inc[p].patches + 1
            \/ \E q \in Procs \ {p} : upd'[q] # upd[q] \/ inc'[q] # inc[q]]_vars

\* the total was not written because no row matched, the counter was read
\* as 'no' and not written either, and the ledger holds neither value
C29_Witness ==
  /\ upd[1].ret = "Error: Employee not found in the master sheet." /\ upd[1].patches = 0
  /\ inc[1].ret = "An error occurred" /\ inc[1].patches = 0
  /\ inc[1].read = Text(<<"n","o">>)
  /\ CounterCell(Roster_, inc[1].target_email) = Text(<<"n","o">>)
  /\ \A rc \in DOMAIN book.cells[MasterSheet] :
       book.cells[MasterSheet][rc] # Num(prov[1].total, FALSE)

\* the months a submission's values may have been computed in
SubmissionMonths ==
  {[year |-> y, month |-> m] : y \in start_year..(start_year + MaxYears), m \in 1..12}

\* every date-derived value that submission p has computed so far is the
\* value of the month `now`
AllComputedIn(p, now) ==
  /\ prov[p].BASE_FOLDER_PATH # << >> => prov[p].BASE_FOLDER_PATH = base_folder_path(now)
  /\ prov[p].month_folder # << >> => prov[p].month_folder = current_month_folder_name(now)
  /\ prov[p].academic_year # << >> => prov[p].academic_year = current_academic_year(now)
  /\ upd[p].pc # "idle" => upd[p].month = MonthLabel(now.year, now.month)

\* C30: the date-derived values of one submission (the academic year of the
\* folder path, the month folder's index, month name and 2-digit year, the
\* academic year under which the ledger is looked for, and the ledger's
\* month label) are all those of one and the same calendar month, even when
\* the clock passes to the next month during the submission.
C30_OneMonthPerSubmission ==
  \A p \in Procs : \E now \in SubmissionMonths : AllComputedIn(p, now)

----------------------------------------------------------------------------
(* Properties of the Submit handler of a tutor *)

Unmatched(validation_results) ==
  \E i \in DOMAIN validation_results : validation_results[i].Status = "No Match Found"

\* C21: the step that validates the sessions of a tutor against the calendar
\* hands the submission over to the base folder step whatever the results
\* are, matched or not, and whether or not the calendar request was answered
\* 200; no result stops the submission.
C21_ValidationNeverBlocks ==
  [][\A p \in Procs :
       prov[p].pc = "calendar" /\ prov'[p].pc # "calendar" =>
         /\ val'.pc = "done"
         /\ Len(val'.validation_results) = Len(val.user_sessions)
         /\ prov'[p].pc = "base_check"]_vars

\* the calendar request failed, every session is unmatched, and the files
\* were uploaded, the total written and the invoice number incremented
C21_Witness ==
  /\ val.pc = "done" /\ val.status = 503
  /\ Unmatched(val.validation_results)
  /\ \A i \in DOMAIN val.validation_results :
       val.validation_results[i].Status = "No Match Found"
  /\ prov[1].employee_folder_id # -1
  /\ RequestedFiles(1) = FilesToUpload(1)
  /\ LedgerWritten(1)
  /\ Succeeded(1)

\* the submission of the tutor has left the calendar step
PastCalendar(p) ==
  prov[p].pc \notin {"idle", "calendar"}

\* the folder, upload, ledger and counter steps follow one another
FolderUploadLedgerCounter(p) ==
  /\ prov[p].requests # << >> => prov[p].employee_folder_id # -1
  /\ upd[p].pc # "idle" =>
       /\ prov[p].pc \in {"ledger", "increment"}
       /\ prov[p].employee_folder_id # -1 => RequestedFiles(p) = FilesToUpload(p)
  /\ inc[p].pc # "idle" => upd[p].pc = "done" /\ prov[p].pc = "increment"

\* C22: the sessions of a tutor are checked against the calendar before any
\* folder request is made; then the destination folder is located or
\* created, then the files are uploaded, then the total is posted to the
\* ledger, and only then the invoice number is incremented.
C22_ValidationFirst ==
  \A p \in Procs :
    /\ PastCalendar(p) => val.pc = "done"
    /\ val.pc # "done" =>
         /\ prov[p].BASE_FOLDER_PATH = Submission(S_al).BASE_FOLDER_PATH
         /\ prov[p].employee_folder_id = -1
         /\ creations = {}
         /\ prov[p].requests = << >>
         /\ upd[p].pc = "idle"
         /\ inc[p].pc = "idle"
    /\ FolderUploadLedgerCounter(p)

\* a month folder was created, the files uploaded, the total written and the
\* invoice number incremented, the validation having been made
C22_Witness ==
  /\ val.pc = "done" /\ val.status = 200
  /\ creations # {}
  /\ Len(prov[1].requests) = 2
  /\ LedgerWritten(1)
  /\ Succeeded(1)

\* the order of the folder, upload, ledger and counter steps, with the
\* sessions checked against the calendar only after the invoice number was
\* incremented
C22_ValidationLast ==
  \A p \in Procs :
    /\ PastCalendar(p) /\ val.pc = "done" => inc[p].pc = "done"
    /\ FolderUploadLedgerCounter(p)

=============================================================================
